---------------------------- MODULE Spec2Model ----------------------------
(***************************************************************************)
(* The Monkey bytecode compiler and virtual machine (path B of the         *)
(* repository): instruction encoding (package code), symbol table and      *)
(* compiler (package compiler), frames and the fetch-decode-execute loop   *)
(* (package vm).  The compiler is a pure function of the AST and is        *)
(* modelled as the recursive operator Compile; the virtual machine is the  *)
(* state machine, one action per case of the switch in VM.Run.             *)
(*                                                                         *)
(* Go slices are 0-based, TLA+ sequences 1-based: Go's s[i] is s[i + 1].   *)
(* A Go run-time panic (index out of range, nil dereference, division by   *)
(* zero) ends the run in status "panic": nothing in the repository         *)
(* recovers from it.                                                       *)
(***************************************************************************)
EXTENDS Integers, Sequences, FiniteSets, TLC

(***************************************************************************)
(* package code: opcodes (iota order), operand widths, Make, Read*.        *)
(***************************************************************************)
OpConstant == 0
OpNull == 1
OpArray == 2
OpHash == 3
OpIndex == 4
OpClosure == 5
OpCurrentClosure == 6
OpAdd == 7
OpSub == 8
OpMul == 9
OpDiv == 10
OpBang == 11
OpMinus == 12
OpTrue == 13
OpFalse == 14
OpEqual == 15
OpNotEqual == 16
OpGreaterThan == 17
OpJumpNotTrue == 18
OpJump == 19
OpCall == 20
OpReturnValue == 21
OpReturn == 22
OpSetGlobal == 23
OpGetGlobal == 24
OpGetLocal == 25
OpSetLocal == 26
OpGetBuiltin == 27
OpGetFree == 28
OpPop == 29

\* definitions[op].OperandWidths
OperandWidths(op) ==
    CASE op \in {OpConstant, OpArray, OpHash, OpJumpNotTrue, OpJump,
                 OpSetGlobal, OpGetGlobal} -> <<2>>
      [] op = OpClosure -> <<2, 1>>
      [] op \in {OpCall, OpGetLocal, OpSetLocal, OpGetBuiltin, OpGetFree} -> <<1>>
      [] OTHER -> <<>>

Opcodes == OpConstant .. OpPop

RECURSIVE SumSeq(_)
SumSeq(s) == IF s = <<>> THEN 0 ELSE Head(s) + SumSeq(Tail(s))

\* EncodeOperand with the low byte of a two-byte operand first.
EncodeOperandLittleEndian(width, operand) ==
    IF width = 2
    THEN <<operand % 256, (operand % 65536) \div 256>>
    ELSE <<operand % 256>>

\* binary.BigEndian.PutUint16(b, uint16(operand)) / b[0] = byte(operand)
EncodeOperand(width, operand) ==
    IF width = 2
    THEN <<(operand % 65536) \div 256, operand % 256>>
    ELSE <<operand % 256>>

RECURSIVE EncodeOperands(_, _)
EncodeOperands(widths, operands) ==
    IF widths = <<>> THEN <<>>
    ELSE (IF operands = <<>>
          THEN [i \in 1 .. Head(widths) |-> 0]
          ELSE EncodeOperand(Head(widths), Head(operands)))
         \o EncodeOperands(Tail(widths),
                           IF operands = <<>> THEN <<>> ELSE Tail(operands))

\* Make: the opcode byte followed by each operand, big-endian, at its width.
\* An opcode without a definition makes an empty instruction.
Make(op, operands) ==
    IF op \notin Opcodes THEN <<>>
    ELSE <<op>> \o EncodeOperands(OperandWidths(op), operands)

\* ReadUint16(ins[at:]) and ReadUint8(ins[at:]); at is a Go (0-based) offset.
ReadUint16(ins, at) == ins[at + 1] * 256 + ins[at + 2]

ReadUint8(ins, at) == ins[at + 1]

\* ReadOperands(definition, instruction): the operands of widths read from
\* instruction, which starts after the opcode byte, and the bytes read.
RECURSIVE ReadOperandsFrom(_, _, _)
ReadOperandsFrom(widths, instruction, offset) ==
    IF widths = <<>> THEN [operands |-> <<>>, offset |-> offset]
    ELSE LET operand == IF Head(widths) = 2 THEN ReadUint16(instruction, offset)
                        ELSE IF Head(widths) = 1 THEN ReadUint8(instruction, offset)
                        ELSE 0
             rest == ReadOperandsFrom(Tail(widths), instruction, offset + Head(widths))
         IN [operands |-> <<operand>> \o rest.operands, offset |-> rest.offset]

ReadOperands(widths, instruction) == ReadOperandsFrom(widths, instruction, 0)

(***************************************************************************)
(* package object: run-time values.  A value that Go holds by pointer and  *)
(* compares by pointer (String, Array, Hash, Closure) carries the          *)
(* identity of its allocation in the field id.                             *)
(***************************************************************************)
Nil == [type |-> "nil"]

Null == [type |-> "NULL"]

True == [type |-> "BOOLEAN", bool |-> TRUE]

False == [type |-> "BOOLEAN", bool |-> FALSE]

Integer(n) == [type |-> "INTEGER", int |-> n]

String(s, id) == [type |-> "STRING", str |-> s, id |-> id]

Array(elements, id) == [type |-> "ARRAY", elements |-> elements, id |-> id]

Hash(pairs, id) == [type |-> "HASH", pairs |-> pairs, id |-> id]

CompiledFunction(instructions, numLocals, numParameters) ==
    [type |-> "COMPILED_FUNCTION_OBJ", Instructions |-> instructions,
     NumLocals |-> numLocals, NumParameters |-> numParameters]

Closure(fn, free, id) == [type |-> "CLOSURE", Fn |-> fn, Free |-> free, id |-> id]

Builtin(index) == [type |-> "BUILTIN", builtin |-> index]

Error(message, id) == [type |-> "ERROR", Message |-> message, id |-> id]

(***************************************************************************)
(* package compiler: the symbol table.  A chain of tables linked by Outer  *)
(* is the sequence of its tables, outermost first: the Outer of table k    *)
(* is table k - 1 and the outermost table has none.                        *)
(***************************************************************************)
GlobalScope == "GLOBAL"

LocalScope == "LOCAL"

BuiltinScope == "BUILTIN"

FreeScope == "FREE"

FunctionScope == "FUNCTION"

Symbol(name, scope, index) == [Name |-> name, Scope |-> scope, Index |-> index]

\* The zero Symbol that Resolve returns with ok = false.
NoSymbol == Symbol("", "", 0)

NewSymbolTable == [store |-> <<>>, numberOfDefinitions |-> 0, FreeSymbols |-> <<>>]

\* st.store[name] = symbol
StorePut(store, name, symbol) ==
    [n \in (DOMAIN store) \cup {name} |-> IF n = name THEN symbol ELSE store[n]]

\* Define that numbers a symbol by the names its table holds.
DefineByStoreSize(tables, k, name) ==
    LET st == tables[k]
        symbol == Symbol(name, IF k = 1 THEN GlobalScope ELSE LocalScope,
                         Cardinality(DOMAIN st.store))
    IN [tables |-> [tables EXCEPT ![k] =
                       [st EXCEPT !.store = StorePut(st.store, name, symbol),
                                  !.numberOfDefinitions = st.numberOfDefinitions + 1]],
        symbol |-> symbol]

\* Define on table k of the chain: Global without an Outer, Local otherwise;
\* the index is the table's definition counter, which then increments.
Define(tables, k, name) ==
    LET st == tables[k]
        symbol == Symbol(name, IF k = 1 THEN GlobalScope ELSE LocalScope,
                         st.numberOfDefinitions)
    IN [tables |-> [tables EXCEPT ![k] =
                       [st EXCEPT !.store = StorePut(st.store, name, symbol),
                                  !.numberOfDefinitions = st.numberOfDefinitions + 1]],
        symbol |-> symbol]

DefineBuiltin(tables, k, index, name) ==
    LET symbol == Symbol(name, BuiltinScope, index)
    IN [tables |-> [tables EXCEPT ![k].store = StorePut(tables[k].store, name, symbol)],
        symbol |-> symbol]

\* DefineFunctionName with the name bound as a free variable.
DefineFunctionNameAsFree(tables, k, name) ==
    LET symbol == Symbol(name, FreeScope, 0)
    IN [tables |-> [tables EXCEPT ![k].store = StorePut(tables[k].store, name, symbol)],
        symbol |-> symbol]

DefineFunctionName(tables, k, name) ==
    LET symbol == Symbol(name, FunctionScope, 0)
    IN [tables |-> [tables EXCEPT ![k].store = StorePut(tables[k].store, name, symbol)],
        symbol |-> symbol]

\* defineFree that leaves the name unbound in the table's store.
defineFreeUnbound(tables, k, original) ==
    LET st == tables[k]
        free == Append(st.FreeSymbols, original)
    IN [tables |-> [tables EXCEPT ![k] = [st EXCEPT !.FreeSymbols = free]],
        symbol |-> Symbol(original.Name, FreeScope, Len(free) - 1)]

\* defineFree that numbers a free symbol from 1.
defineFreeFromOne(tables, k, original) ==
    LET st == tables[k]
        free == Append(st.FreeSymbols, original)
        symbol == Symbol(original.Name, FreeScope, Len(free))
    IN [tables |-> [tables EXCEPT ![k] =
                       [st EXCEPT !.FreeSymbols = free,
                                  !.store = StorePut(st.store, original.Name, symbol)]],
        symbol |-> symbol]

\* defineFree: append the original symbol to FreeSymbols and bind the name
\* to a Free symbol whose index is its position in that list.
defineFree(tables, k, original) ==
    LET st == tables[k]
        free == Append(st.FreeSymbols, original)
        symbol == Symbol(original.Name, FreeScope, Len(free) - 1)
    IN [tables |-> [tables EXCEPT ![k] =
                       [st EXCEPT !.FreeSymbols = free,
                                  !.store = StorePut(st.store, original.Name, symbol)]],
        symbol |-> symbol]

\* Resolve that passes on only a Global as it is.
RECURSIVE ResolveCapturingBuiltins(_, _, _)
ResolveCapturingBuiltins(tables, k, name) ==
    IF name \in DOMAIN tables[k].store
    THEN [tables |-> tables, symbol |-> tables[k].store[name], ok |-> TRUE]
    ELSE IF k > 1
    THEN LET outer == ResolveCapturingBuiltins(tables, k - 1, name)
         IN IF ~outer.ok THEN outer
            ELSE IF outer.symbol.Scope = GlobalScope THEN outer
            ELSE LET free == defineFree(outer.tables, k, outer.symbol)
                 IN [tables |-> free.tables, symbol |-> free.symbol, ok |-> TRUE]
    ELSE [tables |-> tables, symbol |-> NoSymbol, ok |-> FALSE]

\* Resolve on table k: local first, then the outer chain; a Global or a
\* Builtin is passed on as it is, anything else becomes a free symbol here.
RECURSIVE Resolve(_, _, _)
Resolve(tables, k, name) ==
    IF name \in DOMAIN tables[k].store
    THEN [tables |-> tables, symbol |-> tables[k].store[name], ok |-> TRUE]
    ELSE IF k > 1
    THEN LET outer == Resolve(tables, k - 1, name)
         IN IF ~outer.ok THEN outer
            ELSE IF outer.symbol.Scope \in {GlobalScope, BuiltinScope} THEN outer
            ELSE LET free == defineFree(outer.tables, k, outer.symbol)
                 IN [tables |-> free.tables, symbol |-> free.symbol, ok |-> TRUE]
    ELSE [tables |-> tables, symbol |-> NoSymbol, ok |-> FALSE]


(***************************************************************************)
(* The AST the compiler consumes (package ast is the parser's output).     *)
(* A node is a record with its kind and the fields of the Go struct.       *)
(***************************************************************************)
NoNode == [kind |-> "nil"]

Program(statements) == [kind |-> "Program", Statements |-> statements]

ExpressionStatement(expression) ==
    [kind |-> "ExpressionStatement", Expression |-> expression]

BlockStatement(statements) == [kind |-> "BlockStatement", Statements |-> statements]

LetStatement(name, value) == [kind |-> "LetStatement", Name |-> name, Value |-> value]

ReturnStatement(returnValue) ==
    [kind |-> "ReturnStatement", ReturnValue |-> returnValue]

InfixExpression(left, operator, right) ==
    [kind |-> "InfixExpression", Left |-> left, Operator |-> operator, Right |-> right]

PrefixExpression(operator, right) ==
    [kind |-> "PrefixExpression", Operator |-> operator, Right |-> right]

IfExpression(condition, consequence, alternative) ==
    [kind |-> "IfExpression", Condition |-> condition,
     Consequence |-> consequence, Alternative |-> alternative]

IndexExpression(left, index) == [kind |-> "IndexExpression", Left |-> left, Index |-> index]

CallExpression(function, arguments) ==
    [kind |-> "CallExpression", Function |-> function, Arguments |-> arguments]

IntegerLiteral(n) == [kind |-> "IntegerLiteral", IntValue |-> n]

StringLiteral(s) == [kind |-> "StringLiteral", StrValue |-> s]

BooleanLiteral(b) == [kind |-> "Boolean", BoolValue |-> b]

ArrayLiteral(elements) == [kind |-> "ArrayLiteral", Elements |-> elements]

\* Pairs is a Go map from key expression to value expression; it is given
\* here as the sequence of its <<key, value>> entries.
HashLiteral(pairs) == [kind |-> "HashLiteral", Pairs |-> pairs]

\* Name is "" unless the literal is the value of a let statement.
FunctionLiteral(name, parameters, body) ==
    [kind |-> "FunctionLiteral", FnName |-> name, Parameters |-> parameters,
     Body |-> BlockStatement(body)]

Identifier(name) == [kind |-> "Identifier", Ident |-> name]

(***************************************************************************)
(* package compiler: the compiler.  A Compiler value is the record of its  *)
(* fields; error is the error Compile returned (<<>> is nil).  Three       *)
(* fields are history, not program state: closureLog has, for every        *)
(* function literal compiled, the constant index of its function, its      *)
(* FreeSymbols list and where the closure site starts in the enclosing     *)
(* scope and the instructions emitted there;                               *)
(* owners is the names of the function literals being compiled, outermost  *)
(* first; identLog has, for every identifier compiled, its name, the       *)
(* symbol it resolved to, the opcode that loads it and owners;             *)
(* statementEnds has the length of the main instructions after each        *)
(* statement of the program.  enumeration stands for the Go runtime: it    *)
(* fixes the order in which this compilation ranges over the Pairs map of  *)
(* a hash literal.                                                         *)
(***************************************************************************)
EmittedInstruction(op, position) == [Opcode |-> op, Position |-> position]

\* The zero value EmittedInstruction{}.
NoInstruction == EmittedInstruction(0, 0)

CompilationScope ==
    [instructions |-> <<>>, lastInstruction |-> NoInstruction,
     previousInstruction |-> NoInstruction]

\* object.Builtins, in registration order.
Builtins == <<"len", "puts", "first", "last", "rest", "push">>

RECURSIVE DefineBuiltins(_, _)
DefineBuiltins(tables, index) ==
    IF index >= Len(Builtins) THEN tables
    ELSE DefineBuiltins(DefineBuiltin(tables, 1, index, Builtins[index + 1]).tables,
                        index + 1)

New ==
    [constants |-> <<>>,
     symbolTable |-> DefineBuiltins(<<NewSymbolTable>>, 0),
     scopes |-> <<CompilationScope>>,
     scopeIndex |-> 0,
     error |-> <<>>,
     closureLog |-> <<>>,
     owners |-> <<>>,
     identLog |-> <<>>,
     statementEnds |-> <<>>,
     enumeration |-> 0,
     tracing |-> FALSE,
     calls |-> <<>>]

\* NewWithState replaces the table New has filled by the caller's table.
NewWithState(st, constants) ==
    [New EXCEPT !.symbolTable = st, !.constants = constants]

currentInstructions(c) == c.scopes[c.scopeIndex + 1].instructions

\* history: the call is added to calls when the compilation is traced
Called(c, call) == IF c.tracing THEN [c EXCEPT !.calls = Append(@, call)] ELSE c

Bytecode(c) == [Instructions |-> currentInstructions(c), Constants |-> c.constants]

addConstant(c, obj) == [c EXCEPT !.constants = Append(c.constants, obj)]

addInstruction(c, instruction) ==
    [c EXCEPT !.scopes[c.scopeIndex + 1].instructions = @ \o instruction]

setLastInstruction(c, op, position) ==
    LET previous == c.scopes[c.scopeIndex + 1].lastInstruction
    IN [c EXCEPT !.scopes[c.scopeIndex + 1].previousInstruction = previous,
                 !.scopes[c.scopeIndex + 1].lastInstruction =
                     EmittedInstruction(op, position)]

\* emit returns the position of the new instruction: the length of the
\* buffer before the call.
emit(c, op, operands) ==
    Called(setLastInstruction(addInstruction(c, Make(op, operands)), op,
                              Len(currentInstructions(c))),
           [op |-> "emit", opcode |-> op, operands |-> operands])

lastInstructionIs(c, op) ==
    IF Len(currentInstructions(c)) = 0 THEN FALSE
    ELSE c.scopes[c.scopeIndex + 1].lastInstruction.Opcode = op

removeLastPopAndPrevious(c) ==
    LET previous == c.scopes[c.scopeIndex + 1].previousInstruction
    IN Called([c EXCEPT !.scopes[c.scopeIndex + 1].instructions =
                            SubSeq(@, 1, previous.Position),
                        !.scopes[c.scopeIndex + 1].lastInstruction = previous],
              [op |-> "removeLastPop"])

\* removeLastPop cuts the buffer at the last instruction's position and
\* makes previousInstruction the last one (previousInstruction stays).
removeLastPop(c) ==
    LET last == c.scopes[c.scopeIndex + 1].lastInstruction
        previous == c.scopes[c.scopeIndex + 1].previousInstruction
    IN Called([c EXCEPT !.scopes[c.scopeIndex + 1].instructions =
                            SubSeq(@, 1, last.Position),
                        !.scopes[c.scopeIndex + 1].lastInstruction = previous],
              [op |-> "removeLastPop"])

replaceInstruction(c, position, newInstruction) ==
    [c EXCEPT !.scopes[c.scopeIndex + 1].instructions =
        [i \in DOMAIN @ |->
            IF i - 1 >= position /\ i - 1 < position + Len(newInstruction)
            THEN newInstruction[i - position]
            ELSE @[i]]]

replaceLastPopWithReturn(c) ==
    LET lastPos == c.scopes[c.scopeIndex + 1].lastInstruction.Position
        c1 == replaceInstruction(c, lastPos, Make(OpReturnValue, <<>>))
    IN Called([c1 EXCEPT !.scopes[c.scopeIndex + 1].lastInstruction.Opcode =
                             OpReturnValue],
              [op |-> "replaceLastPopWithReturn"])

changeOperandToStart(c, opPosition, operand) ==
    replaceInstruction(c, opPosition,
                       Make(currentInstructions(c)[opPosition + 1], <<0>>))

changeOperandKeepingPlaceholder(c, opPosition, operand) ==
    IF currentInstructions(c)[opPosition + 1] = OpJump THEN c
    ELSE replaceInstruction(c, opPosition,
                            Make(currentInstructions(c)[opPosition + 1], <<operand>>))

changeOperand(c, opPosition, operand) ==
    LET op == currentInstructions(c)[opPosition + 1]
    IN Called(replaceInstruction(c, opPosition, Make(op, <<operand>>)),
              [op |-> "changeOperand", opPosition |-> opPosition, operand |-> operand])

enterScope(c) ==
    Called([c EXCEPT !.scopes = Append(@, CompilationScope),
                     !.scopeIndex = @ + 1,
                     !.symbolTable = Append(@, NewSymbolTable)],
           [op |-> "enterScope"])

\* leaveScope returns the instructions of the scope it leaves: the caller
\* reads them with currentInstructions before the call.
leaveScope(c) ==
    Called([c EXCEPT !.scopes = SubSeq(@, 1, Len(@) - 1),
                     !.scopeIndex = @ - 1,
                     !.symbolTable = SubSeq(@, 1, Len(@) - 1)],
           [op |-> "leaveScope"])

loadSymbol(c, sym) ==
    CASE sym.Scope = GlobalScope -> emit(c, OpGetGlobal, <<sym.Index>>)
      [] sym.Scope = LocalScope -> emit(c, OpGetLocal, <<sym.Index>>)
      [] sym.Scope = BuiltinScope -> emit(c, OpGetBuiltin, <<sym.Index>>)
      [] sym.Scope = FreeScope -> emit(c, OpGetFree, <<sym.Index>>)
      [] sym.Scope = FunctionScope -> emit(c, OpCurrentClosure, <<>>)
      [] OTHER -> c

RECURSIVE loadSymbols(_, _)
loadSymbols(c, symbols) ==
    IF symbols = <<>> THEN c
    ELSE loadSymbols(loadSymbol(c, Head(symbols)), Tail(symbols))

RECURSIVE DefineParameters(_, _)
DefineParameters(c, parameters) ==
    IF parameters = <<>> THEN c
    ELSE DefineParameters(
             [c EXCEPT !.symbolTable =
                 Define(@, Len(@), Head(parameters)).tables],
             Tail(parameters))

Failed(c) == c.error # <<>>

InfixOpcode(operator) ==
    CASE operator = "+" -> OpAdd
      [] operator = "-" -> OpSub
      [] operator = "*" -> OpMul
      [] operator = "/" -> OpDiv
      [] operator = "==" -> OpEqual
      [] operator = "!=" -> OpNotEqual
      [] operator = ">" -> OpGreaterThan
      [] OTHER -> -1


(***************************************************************************)
(* The textual form of a key expression (ast Expression.String()), as the  *)
(* sequence of its bytes, and the order sort.Slice puts the keys of a hash *)
(* literal in.  String contents are sequences of byte values throughout.   *)
(***************************************************************************)
RECURSIVE Digits(_)
Digits(n) == IF n < 10 THEN <<48 + n>> ELSE Digits(n \div 10) \o <<48 + (n % 10)>>

\* the bytes of an operator token
OperatorBytes(operator) ==
    CASE operator = "+" -> <<43>>
      [] operator = "-" -> <<45>>
      [] operator = "*" -> <<42>>
      [] operator = "/" -> <<47>>
      [] operator = "!" -> <<33>>
      [] operator = "<" -> <<60>>
      [] operator = ">" -> <<62>>
      [] operator = "==" -> <<61, 61>>
      [] operator = "!=" -> <<33, 61>>
      [] OTHER -> <<>>

RECURSIVE NodeString(_)
RECURSIVE JoinStrings(_)
\* strings.Join(elements, ", ")
JoinStrings(nodes) ==
    IF nodes = <<>> THEN <<>>
    ELSE IF Len(nodes) = 1 THEN NodeString(nodes[1])
    ELSE NodeString(nodes[1]) \o <<44, 32>> \o JoinStrings(Tail(nodes))

NodeString(node) ==
    CASE node.kind = "IntegerLiteral" -> Digits(node.IntValue)
      [] node.kind = "StringLiteral" -> node.StrValue
      [] node.kind = "Boolean" ->
            IF node.BoolValue THEN <<116, 114, 117, 101>>
            ELSE <<102, 97, 108, 115, 101>>
      [] node.kind = "InfixExpression" ->
            <<40>> \o NodeString(node.Left) \o <<32>> \o OperatorBytes(node.Operator)
            \o <<32>> \o NodeString(node.Right) \o <<41>>
      [] node.kind = "PrefixExpression" ->
            <<40>> \o OperatorBytes(node.Operator) \o NodeString(node.Right) \o <<41>>
      [] node.kind = "ArrayLiteral" -> <<91>> \o JoinStrings(node.Elements) \o <<93>>
      [] OTHER -> <<>>

\* Go's < on strings: bytewise lexicographic order.
RECURSIVE StringLess(_, _)
StringLess(a, b) ==
    IF b = <<>> THEN FALSE
    ELSE IF a = <<>> THEN TRUE
    ELSE IF Head(a) # Head(b) THEN Head(a) < Head(b)
    ELSE StringLess(Tail(a), Tail(b))

RECURSIVE InsertKey(_, _)
InsertKey(sorted, pair) ==
    IF sorted = <<>> THEN <<pair>>
    ELSE IF StringLess(NodeString(pair[1]), NodeString(Head(sorted)[1]))
    THEN <<pair>> \o sorted
    ELSE <<Head(sorted)>> \o InsertKey(Tail(sorted), pair)

RECURSIVE SortPairs(_)
SortPairs(pairs) ==
    IF pairs = <<>> THEN <<>>
    ELSE InsertKey(SortPairs(SubSeq(pairs, 1, Len(pairs) - 1)), pairs[Len(pairs)])

\* for key := range node.Pairs: Go ranges over a map in an order that
\* differs from run to run.  Enumerate is the entries in the order that
\* enumeration picks: entry (enumeration % n) + 1 first, and the others in
\* the order that enumeration \div n picks.
RECURSIVE Enumerate(_, _)
Enumerate(pairs, enumeration) ==
    IF pairs = <<>> THEN <<>>
    ELSE LET k == (enumeration % Len(pairs)) + 1
         IN <<pairs[k]>>
            \o Enumerate(SubSeq(pairs, 1, k - 1) \o SubSeq(pairs, k + 1, Len(pairs)),
                         enumeration \div Len(pairs))

(***************************************************************************)
(* Compiler.Compile.  A failed Compile returns at once: the compiler is    *)
(* left as it was at the failing node, with error set.                     *)
(***************************************************************************)
RECURSIVE Compile(_, _)
RECURSIVE CompileAll(_, _)
RECURSIVE CompilePairs(_, _)
RECURSIVE CompileProgram(_, _)

\* for _, node := range nodes { error := c.Compile(node); if error != nil { return error } }
CompileAll(c, nodes) ==
    IF nodes = <<>> \/ Failed(c) THEN c
    ELSE CompileAll(Compile(c, Head(nodes)), Tail(nodes))

\* case *ast.Program: the statements in order, stopping at the first error.
\* statementEnds is history: the length of the instructions after each one.
CompileProgram(c, statements) ==
    IF statements = <<>> THEN c
    ELSE LET statement == Compile(c, Head(statements))
         IN IF Failed(statement) THEN statement
            ELSE CompileProgram(
                     [statement EXCEPT !.statementEnds =
                         Append(@, Len(currentInstructions(statement)))],
                     Tail(statements))

CompilePairs(c, pairs) ==
    IF pairs = <<>> \/ Failed(c) THEN c
    ELSE LET key == Compile(c, Head(pairs)[1])
         IN IF Failed(key) THEN key
            ELSE CompilePairs(Compile(key, Head(pairs)[2]), Tail(pairs))

CompileLetStatement(c, node) ==
    LET defined == Define(c.symbolTable, Len(c.symbolTable), node.Name)
        value == Compile([c EXCEPT !.symbolTable = defined.tables], node.Value)
    IN IF Failed(value) THEN value
       ELSE IF defined.symbol.Scope = GlobalScope
       THEN emit(value, OpSetGlobal, <<defined.symbol.Index>>)
       ELSE emit(value, OpSetLocal, <<defined.symbol.Index>>)

CompileInfixExpression(c, node) ==
    IF node.Operator = "<"
    THEN LET right == Compile(c, node.Right)
         IN IF Failed(right) THEN right
            ELSE LET left == Compile(right, node.Left)
                 IN IF Failed(left) THEN left
                    ELSE emit(left, OpGreaterThan, <<>>)
    ELSE LET left == Compile(c, node.Left)
         IN IF Failed(left) THEN left
            ELSE LET right == Compile(left, node.Right)
                 IN IF Failed(right) THEN right
                    ELSE IF InfixOpcode(node.Operator) >= 0
                    THEN emit(right, InfixOpcode(node.Operator), <<>>)
                    ELSE [right EXCEPT !.error =
                             <<"unknown operator %s", node.Operator>>]

CompilePrefixExpression(c, node) ==
    LET right == Compile(c, node.Right)
    IN IF Failed(right) THEN right
       ELSE CASE node.Operator = "!" -> emit(right, OpBang, <<>>)
              [] node.Operator = "-" -> emit(right, OpMinus, <<>>)
              [] OTHER -> [right EXCEPT !.error =
                              <<"unknown operator %s", node.Operator>>]

\* The alternative of an if-expression: OpNull when there is none, else the
\* block with its last OpPop removed.
CompileAlternative(c, node) ==
    IF node.Alternative.kind = "nil" THEN emit(c, OpNull, <<>>)
    ELSE LET alternative == Compile(c, node.Alternative)
         IN IF Failed(alternative) THEN alternative
            ELSE IF lastInstructionIs(alternative, OpPop)
            THEN removeLastPop(alternative)
            ELSE alternative

CompileIfExpression(c, node) ==
    LET condition == Compile(c, node.Condition)
    IN IF Failed(condition) THEN condition
       ELSE
       LET jumpNotTruePos == Len(currentInstructions(condition))
           consequence ==
               Compile(emit(condition, OpJumpNotTrue, <<9999>>), node.Consequence)
       IN IF Failed(consequence) THEN consequence
          ELSE
          LET popped == IF lastInstructionIs(consequence, OpPop)
                        THEN removeLastPop(consequence)
                        ELSE consequence
              jumpPos == Len(currentInstructions(popped))
              jump == emit(popped, OpJump, <<9999>>)
              afterConsequencePos == Len(currentInstructions(jump))
              alternative ==
                  CompileAlternative(
                      changeOperand(jump, jumpNotTruePos, afterConsequencePos), node)
          IN IF Failed(alternative) THEN alternative
             ELSE changeOperand(alternative, jumpPos,
                                Len(currentInstructions(alternative)))

CompileIndexExpression(c, node) ==
    LET left == Compile(c, node.Left)
    IN IF Failed(left) THEN left
       ELSE LET index == Compile(left, node.Index)
            IN IF Failed(index) THEN index ELSE emit(index, OpIndex, <<>>)

CompileCallExpression(c, node) ==
    LET function == Compile(c, node.Function)
    IN IF Failed(function) THEN function
       ELSE LET arguments == CompileAll(function, node.Arguments)
            IN IF Failed(arguments) THEN arguments
               ELSE emit(arguments, OpCall, <<Len(node.Arguments)>>)

CompileArrayLiteral(c, node) ==
    LET elements == CompileAll(c, node.Elements)
    IN IF Failed(elements) THEN elements
       ELSE emit(elements, OpArray, <<Len(node.Elements)>>)

CompileHashLiteral(c, node) ==
    LET pairs == CompilePairs(c, SortPairs(Enumerate(node.Pairs, c.enumeration)))
    IN IF Failed(pairs) THEN pairs
       ELSE emit(pairs, OpHash, <<Len(node.Pairs) * 2>>)

\* The terminator of a function body: a last OpPop becomes OpReturnValue,
\* and a body that does not end in OpReturnValue gets an OpReturn.
TerminateFunction(c) ==
    LET returned == IF lastInstructionIs(c, OpPop)
                    THEN replaceLastPopWithReturn(c)
                    ELSE c
    IN IF ~lastInstructionIs(returned, OpReturnValue)
       THEN emit(returned, OpReturn, <<>>)
       ELSE returned

\* The closure site in the enclosing scope: the loads of the free symbols,
\* the function constant, then OpClosure.
EmitClosure(c, freeSymbols, compiledFn) ==
    LET loaded == loadSymbols(c, freeSymbols)
        fnIndex == Len(loaded.constants)
        closure == emit(addConstant(loaded, compiledFn), OpClosure,
                        <<fnIndex, Len(freeSymbols)>>)
    IN [closure EXCEPT !.closureLog =
           Append(@, [fnIndex |-> fnIndex, freeSymbols |-> freeSymbols,
                      scopeIndex |-> c.scopeIndex,
                      start |-> Len(currentInstructions(c)),
                      name |-> IF c.owners = <<>> THEN "" ELSE c.owners[Len(c.owners)],
                      site |-> SubSeq(currentInstructions(closure),
                                      Len(currentInstructions(c)) + 1,
                                      Len(currentInstructions(closure)))])]

CompileFunctionLiteral(c, node) ==
    LET entered == enterScope(c)
        named == IF node.FnName # ""
                 THEN [entered EXCEPT !.symbolTable =
                          DefineFunctionName(@, Len(@), node.FnName).tables]
                 ELSE entered
        owned == [named EXCEPT !.owners = Append(@, node.FnName)]
        body == Compile(DefineParameters(owned, node.Parameters), node.Body)
    IN IF Failed(body) THEN body
       ELSE
       LET terminated == TerminateFunction(body)
           table == terminated.symbolTable[Len(terminated.symbolTable)]
           compiledFn == CompiledFunction(currentInstructions(terminated),
                                          table.numberOfDefinitions,
                                          Len(node.Parameters))
           closure == EmitClosure(leaveScope(terminated), table.FreeSymbols,
                                  compiledFn)
       IN [closure EXCEPT !.owners = c.owners]

CompileIdentifier(c, node) ==
    LET resolved == Resolve(c.symbolTable, Len(c.symbolTable), node.Ident)
    IN IF ~resolved.ok
       THEN [c EXCEPT !.symbolTable = resolved.tables,
                      !.error = <<"undefined variable %s", node.Ident>>]
       ELSE LET loaded == loadSymbol([c EXCEPT !.symbolTable = resolved.tables],
                                     resolved.symbol)
                ins == currentInstructions(loaded)
            IN [loaded EXCEPT !.identLog =
                   Append(@, [name |-> node.Ident, symbol |-> resolved.symbol,
                              op |-> ins[Len(currentInstructions(c)) + 1],
                              owners |-> c.owners])]

Compile(c, node) ==
    CASE node.kind = "Program" -> CompileProgram(c, node.Statements)
      [] node.kind = "BlockStatement" -> CompileAll(c, node.Statements)
      [] node.kind = "ExpressionStatement" ->
            LET expression == Compile(c, node.Expression)
            IN IF Failed(expression) THEN expression
               ELSE emit(expression, OpPop, <<>>)
      [] node.kind = "LetStatement" -> CompileLetStatement(c, node)
      [] node.kind = "ReturnStatement" ->
            LET returnValue == Compile(c, node.ReturnValue)
            IN IF Failed(returnValue) THEN returnValue
               ELSE emit(returnValue, OpReturnValue, <<>>)
      [] node.kind = "InfixExpression" -> CompileInfixExpression(c, node)
      [] node.kind = "PrefixExpression" -> CompilePrefixExpression(c, node)
      [] node.kind = "IfExpression" -> CompileIfExpression(c, node)
      [] node.kind = "IndexExpression" -> CompileIndexExpression(c, node)
      [] node.kind = "CallExpression" -> CompileCallExpression(c, node)
      [] node.kind = "IntegerLiteral" ->
            emit(addConstant(c, Integer(node.IntValue)), OpConstant,
                 <<Len(c.constants)>>)
      [] node.kind = "StringLiteral" ->
            emit(addConstant(c, String(node.StrValue, Len(c.constants))),
                 OpConstant, <<Len(c.constants)>>)
      [] node.kind = "ArrayLiteral" -> CompileArrayLiteral(c, node)
      [] node.kind = "HashLiteral" -> CompileHashLiteral(c, node)
      [] node.kind = "FunctionLiteral" -> CompileFunctionLiteral(c, node)
      [] node.kind = "Boolean" ->
            IF node.BoolValue THEN emit(c, OpTrue, <<>>) ELSE emit(c, OpFalse, <<>>)
      [] node.kind = "Identifier" -> CompileIdentifier(c, node)
      [] OTHER -> c


(***************************************************************************)
(* The programs run.  Each is the AST the parser builds for the source     *)
(* text in the comment above it.                                           *)
(***************************************************************************)
Num(n) == IntegerLiteral(n)

Str(s) == StringLiteral(s)

Bool(b) == BooleanLiteral(b)

Id(name) == Identifier(name)

Expr(expression) == ExpressionStatement(expression)

Let(name, value) == LetStatement(name, value)

Infix(left, operator, right) == InfixExpression(left, operator, right)

Call(function, arguments) == CallExpression(function, arguments)

\* fn(parameters) { body }
Fn(parameters, body) == FunctionLiteral("", parameters, body)

\* let name = fn(parameters) { body };  the parser names the literal
LetFn(name, parameters, body) ==
    LetStatement(name, FunctionLiteral(name, parameters, body))

\* if (condition) { consequence }
If(condition, consequence) ==
    IfExpression(condition, BlockStatement(consequence), NoNode)

\* if (condition) { consequence } else { alternative }
IfElse(condition, consequence, alternative) ==
    IfExpression(condition, BlockStatement(consequence), BlockStatement(alternative))

\* the bytes of "a", "b", "c"
Bytes(n) == [i \in 1 .. n |-> 96 + i]

ArithmeticPrograms ==
    { \* (5 + 10 * 2 + 15 / 3) * 2 + -10
      Program(<<Expr(Infix(Infix(Infix(Infix(Num(5), "+", Infix(Num(10), "*", Num(2))),
                                       "+", Infix(Num(15), "/", Num(3))),
                                 "*", Num(2)),
                           "+", PrefixExpression("-", Num(10))))>>),
      \* 7 - 9; -7 / 2
      Program(<<Expr(Infix(Num(7), "-", Num(9))),
                Expr(Infix(PrefixExpression("-", Num(7)), "/", Num(2)))>>),
      \* (1 < 2) == true; 1 > 2; 1 != 2; true != false; !5; !!true
      Program(<<Expr(Infix(Infix(Num(1), "<", Num(2)), "==", Bool(TRUE))),
                Expr(Infix(Num(1), ">", Num(2))),
                Expr(Infix(Num(1), "!=", Num(2))),
                Expr(Infix(Bool(TRUE), "!=", Bool(FALSE))),
                Expr(PrefixExpression("!", Num(5))),
                Expr(PrefixExpression("!", PrefixExpression("!", Bool(TRUE))))>>),
      \* !(if (false) { 5; })
      Program(<<Expr(PrefixExpression("!", If(Bool(FALSE), <<Expr(Num(5))>>)))>>),
      \* if (1 > 2) { 10 } else { 20 }
      Program(<<Expr(IfElse(Infix(Num(1), ">", Num(2)),
                            <<Expr(Num(10))>>, <<Expr(Num(20))>>))>>),
      \* if ((if (false) { 10 })) { 10 } else { 20 }
      Program(<<Expr(IfElse(If(Bool(FALSE), <<Expr(Num(10))>>),
                            <<Expr(Num(10))>>, <<Expr(Num(20))>>))>>),
      \* let one = 1; let two = one + one; one + two
      Program(<<Let("one", Num(1)),
                Let("two", Infix(Id("one"), "+", Id("one"))),
                Expr(Infix(Id("one"), "+", Id("two")))>>),
      \* "ab" + "c"; "a" == "a"; "a" > "b"
      Program(<<Expr(Infix(Str(Bytes(2)), "+", Str(<<99>>))),
                Expr(Infix(Str(Bytes(1)), "==", Str(Bytes(1)))),
                Expr(Infix(Str(Bytes(1)), ">", Str(<<98>>)))>>),
      \* "a" + "b" == "ab"; "a" != "a"; let s = "a"; s == s; s != s
      Program(<<Expr(Infix(Infix(Str(Bytes(1)), "+", Str(<<98>>)), "==", Str(Bytes(2)))),
                Expr(Infix(Str(Bytes(1)), "!=", Str(Bytes(1)))),
                Let("s", Str(Bytes(1))),
                Expr(Infix(Id("s"), "==", Id("s"))),
                Expr(Infix(Id("s"), "!=", Id("s")))>>),
      \* 5 + true
      Program(<<Expr(Infix(Num(5), "+", Bool(TRUE)))>>),
      \* "a" - "b"
      Program(<<Expr(Infix(Str(Bytes(1)), "-", Str(<<98>>)))>>),
      \* -true
      Program(<<Expr(PrefixExpression("-", Bool(TRUE)))>>),
      \* 1 / 0
      Program(<<Expr(Infix(Num(1), "/", Num(0)))>>),
      \* x
      Program(<<Expr(Id("x"))>>),
      \* the empty program
      Program(<<>>) }

\* The greatest number of entries of a hash literal in the programs.
MaxPairs == 3

\* The number of further two-byte operand values Make is applied to.
MaxSample == 2

RECURSIVE Factorial(_)
Factorial(n) == IF n = 0 THEN 1 ELSE n * Factorial(n - 1)

\* One enumeration for every order of MaxPairs entries.
Enumerations == 0 .. Factorial(MaxPairs) - 1

\* The programs with a hash literal.
HashPrograms ==
    { 
      \* {1: 2, 3: 4}[3]; {}[0]; {true: 5, "a": 6}["a"]
      Program(<<Expr(IndexExpression(HashLiteral(<<<<Num(1), Num(2)>>,
                                                   <<Num(3), Num(4)>>>>), Num(3))),
                Expr(IndexExpression(HashLiteral(<<>>), Num(0))),
                Expr(IndexExpression(HashLiteral(<<<<Bool(TRUE), Num(5)>>,
                                                   <<Str(Bytes(1)), Num(6)>>>>),
                                     Str(Bytes(1))))>>),
      \* {2: 1, 1 + 1: 3}
      Program(<<Expr(HashLiteral(<<<<Num(2), Num(1)>>,
                                   <<Infix(Num(1), "+", Num(1)), Num(3)>>>>))>>),
      \* {[1]: 2}
      Program(<<Expr(HashLiteral(<<<<ArrayLiteral(<<Num(1)>>), Num(2)>>>>))>>),
      \* {1: 2}[[1]]
      Program(<<Expr(IndexExpression(HashLiteral(<<<<Num(1), Num(2)>>>>),
                                     ArrayLiteral(<<Num(1)>>)))>>),
      \* {3: 1, 2: 2, 1: 3}[2]
      Program(<<Expr(IndexExpression(HashLiteral(<<<<Num(3), Num(1)>>, <<Num(2), Num(2)>>,
                                                   <<Num(1), Num(3)>>>>), Num(2)))>>),
      \* {"b": 1, "a": 2}
      Program(<<Expr(HashLiteral(<<<<Str(<<98>>), Num(1)>>, <<Str(Bytes(1)), Num(2)>>>>))>>),
      \* {1: 2, 1: 3}[1]
      Program(<<Expr(IndexExpression(HashLiteral(<<<<Num(1), Num(2)>>,
                                                   <<Num(1), Num(3)>>>>), Num(1)))>>),
      \* {1: 7, "1": 8}
      Program(<<Expr(HashLiteral(<<<<Num(1), Num(7)>>, <<Str(<<49>>), Num(8)>>>>))>>) }

\* The lines given to a compiler that NewWithState has made.
ReplPrograms ==
    { \* 1 + 2
      Program(<<Expr(Infix(Num(1), "+", Num(2)))>>),
      \* let len = fn(x) { 7 }; len(1)
      Program(<<LetFn("len", <<"x">>, <<Expr(Num(7))>>),
                Expr(Call(Id("len"), <<Num(1)>>))>>) }
    \cup { Program(<<Expr(Id(Builtins[i]))>>) : i \in DOMAIN Builtins }

\* The programs that are compiled and run twice.
TwicePrograms == HashPrograms \cup ReplPrograms

CollectionPrograms ==
    { \* [1, 2 * 2, 3 + 3][1]
      Program(<<Expr(IndexExpression(
                    ArrayLiteral(<<Num(1), Infix(Num(2), "*", Num(2)),
                                   Infix(Num(3), "+", Num(3))>>), Num(1)))>>),
      \* [1][5]; [][-1]
      Program(<<Expr(IndexExpression(ArrayLiteral(<<Num(1)>>), Num(5))),
                Expr(IndexExpression(ArrayLiteral(<<>>),
                                     PrefixExpression("-", Num(1))))>>),
      \* 1[0]
      Program(<<Expr(IndexExpression(Num(1), Num(0)))>>),
      \* [1][true]
      Program(<<Expr(IndexExpression(ArrayLiteral(<<Num(1)>>), Bool(TRUE)))>>),
      \* "a"[0]
      Program(<<Expr(IndexExpression(Str(Bytes(1)), Num(0)))>>),
      \* {true: 5}[false]; {true: 5}[true]
      Program(<<Expr(IndexExpression(HashLiteral(<<<<Bool(TRUE), Num(5)>>>>), Bool(FALSE))),
                Expr(IndexExpression(HashLiteral(<<<<Bool(TRUE), Num(5)>>>>), Bool(TRUE)))>>),
      \* len("abc"); len([1, 2]); len(1); len("a", "b")
      Program(<<Expr(Call(Id("len"), <<Str(Bytes(3))>>)),
                Expr(Call(Id("len"), <<ArrayLiteral(<<Num(1), Num(2)>>)>>)),
                Expr(Call(Id("len"), <<Num(1)>>)),
                Expr(Call(Id("len"), <<Str(Bytes(1)), Str(<<98>>)>>))>>),
      \* puts("a"); first([1, 2]); first([]); last([1, 2]); rest([1, 2]); push([], 1)
      Program(<<Expr(Call(Id("puts"), <<Str(Bytes(1))>>)),
                Expr(Call(Id("first"), <<ArrayLiteral(<<Num(1), Num(2)>>)>>)),
                Expr(Call(Id("first"), <<ArrayLiteral(<<>>)>>)),
                Expr(Call(Id("last"), <<ArrayLiteral(<<Num(1), Num(2)>>)>>)),
                Expr(Call(Id("rest"), <<ArrayLiteral(<<Num(1), Num(2)>>)>>)),
                Expr(Call(Id("push"), <<ArrayLiteral(<<>>), Num(1)>>))>>),
      \* 1()
      Program(<<Expr(Call(Num(1), <<>>))>>) }

FunctionPrograms ==
    { \* let fivePlusTen = fn() { 5 + 10; }; fivePlusTen();
      Program(<<LetFn("fivePlusTen", <<>>, <<Expr(Infix(Num(5), "+", Num(10)))>>),
                Expr(Call(Id("fivePlusTen"), <<>>))>>),
      \* let earlyExit = fn() { return 99; 100; }; earlyExit();
      Program(<<LetFn("earlyExit", <<>>, <<ReturnStatement(Num(99)), Expr(Num(100))>>),
                Expr(Call(Id("earlyExit"), <<>>))>>),
      \* let noReturn = fn() { }; noReturn();
      Program(<<LetFn("noReturn", <<>>, <<>>), Expr(Call(Id("noReturn"), <<>>))>>),
      \* let returnsOne = fn() { 1; };
      \* let returnsOneReturner = fn() { returnsOne; }; returnsOneReturner()();
      Program(<<LetFn("returnsOne", <<>>, <<Expr(Num(1))>>),
                LetFn("returnsOneReturner", <<>>, <<Expr(Id("returnsOne"))>>),
                Expr(Call(Call(Id("returnsOneReturner"), <<>>), <<>>))>>),
      \* let oneAndTwo = fn() { let one = 1; let two = 2; one + two; }; oneAndTwo();
      Program(<<LetFn("oneAndTwo", <<>>,
                      <<Let("one", Num(1)), Let("two", Num(2)),
                        Expr(Infix(Id("one"), "+", Id("two")))>>),
                Expr(Call(Id("oneAndTwo"), <<>>))>>),
      \* let globalNum = 10;
      \* let sum = fn(a, b) { let c = a + b; c + globalNum; };
      \* let outer = fn() { sum(1, 2) + sum(3, 4) + globalNum; };
      \* outer() + globalNum;
      Program(<<Let("globalNum", Num(10)),
                LetFn("sum", <<"a", "b">>,
                      <<Let("c", Infix(Id("a"), "+", Id("b"))),
                        Expr(Infix(Id("c"), "+", Id("globalNum")))>>),
                LetFn("outer", <<>>,
                      <<Expr(Infix(Infix(Call(Id("sum"), <<Num(1), Num(2)>>), "+",
                                         Call(Id("sum"), <<Num(3), Num(4)>>)),
                                   "+", Id("globalNum")))>>),
                Expr(Infix(Call(Id("outer"), <<>>), "+", Id("globalNum")))>>),
      \* fn() { 1; }(1);
      Program(<<Expr(Call(Fn(<<>>, <<Expr(Num(1))>>), <<Num(1)>>))>>),
      \* fn(a, b) { a + b; }(1);
      Program(<<Expr(Call(Fn(<<"a", "b">>, <<Expr(Infix(Id("a"), "+", Id("b")))>>),
                          <<Num(1)>>))>>),
      \* fn(a) { a; }();
      Program(<<Expr(Call(Fn(<<"a">>, <<Expr(Id("a"))>>), <<>>))>>),
      \* let g = fn(a, b) { a + b }; fn() { 5; g(1) }()
      Program(<<LetFn("g", <<"a", "b">>, <<Expr(Infix(Id("a"), "+", Id("b")))>>),
                Expr(Call(Fn(<<>>, <<Expr(Num(5)), Expr(Call(Id("g"), <<Num(1)>>))>>),
                          <<>>))>>),
      \* let f = fn(a) { let b = a; if (b > 1) { return b; }; [b, len([a])] }; f(1); f(2)
      Program(<<LetFn("f", <<"a">>,
                      <<Let("b", Id("a")),
                        Expr(If(Infix(Id("b"), ">", Num(1)), <<ReturnStatement(Id("b"))>>)),
                        Expr(ArrayLiteral(<<Id("b"),
                                            Call(Id("len"), <<ArrayLiteral(<<Id("a")>>)>>)>>))>>),
                Expr(Call(Id("f"), <<Num(1)>>)),
                Expr(Call(Id("f"), <<Num(2)>>))>>),
      \* return 5;
      Program(<<ReturnStatement(Num(5))>>) }

\* The largest integer the closure programs pass as an argument.
MaxArgument == 1

Arguments == 0 .. MaxArgument

ClosurePrograms ==
    { \* let newAdder = fn(a) { fn(b) { a + b } };
      \* let addA = newAdder(a); let addB = newAdder(b); addA(b) - addB(a)
      Program(<<LetFn("newAdder", <<"a">>,
                      <<Expr(Fn(<<"b">>, <<Expr(Infix(Id("a"), "+", Id("b")))>>))>>),
                Let("addA", Call(Id("newAdder"), <<Num(a)>>)),
                Let("addB", Call(Id("newAdder"), <<Num(b + 2)>>)),
                Expr(Infix(Call(Id("addA"), <<Num(b)>>), "-",
                           Call(Id("addB"), <<Num(a)>>)))>>)
      : a \in Arguments, b \in Arguments }
    \cup
    { \* let newAdderOuter = fn(a, b) {
      \*     let c = a + b;
      \*     fn(d) { let e = d + c; fn(f) { e + f + a; }; };
      \* };
      \* let newAdderInner = newAdderOuter(a, 2); let adder = newAdderInner(3); adder(b);
      Program(<<LetFn("newAdderOuter", <<"a", "b">>,
                      <<Let("c", Infix(Id("a"), "+", Id("b"))),
                        Expr(Fn(<<"d">>,
                                <<Let("e", Infix(Id("d"), "+", Id("c"))),
                                  Expr(Fn(<<"f">>,
                                          <<Expr(Infix(Infix(Id("e"), "+", Id("f")),
                                                       "+", Id("a")))>>))>>))>>),
                Let("newAdderInner", Call(Id("newAdderOuter"), <<Num(a), Num(2)>>)),
                Let("adder", Call(Id("newAdderInner"), <<Num(3)>>)),
                Expr(Call(Id("adder"), <<Num(b)>>))>>)
      : a \in Arguments, b \in Arguments }
    \cup
    { \* let newClosure = fn(a, b) {
      \*     let one = fn() { a; }; let two = fn() { b; }; fn() { one() + two(); };
      \* };
      \* let closure = newClosure(a, b); closure();
      Program(<<LetFn("newClosure", <<"a", "b">>,
                      <<LetFn("one", <<>>, <<Expr(Id("a"))>>),
                        LetFn("two", <<>>, <<Expr(Id("b"))>>),
                        Expr(Fn(<<>>, <<Expr(Infix(Call(Id("one"), <<>>), "+",
                                                   Call(Id("two"), <<>>)))>>))>>),
                Let("closure", Call(Id("newClosure"), <<Num(a), Num(b + 5)>>)),
                Expr(Call(Id("closure"), <<>>))>>)
      : a \in Arguments, b \in Arguments }

\* The deepest recursion the recursive programs ask for.
MaxDepth == 2

Depths == 0 .. MaxDepth

\* fn(x) { if (x == 0) { return 0; } else { countDown(x - 1); } }
CountDown ==
    <<Expr(IfElse(Infix(Id("x"), "==", Num(0)),
                  <<ReturnStatement(Num(0))>>,
                  <<Expr(Call(Id("countDown"), <<Infix(Id("x"), "-", Num(1))>>))>>))>>

RecursivePrograms ==
    { \* let countDown = fn(x) { ... }; countDown(n);
      Program(<<LetFn("countDown", <<"x">>, CountDown),
                Expr(Call(Id("countDown"), <<Num(n)>>))>>)
      : n \in Depths }
    \cup
    { \* let wrapper = fn() { let countDown = fn(x) { ... }; countDown(n); }; wrapper();
      Program(<<LetFn("wrapper", <<>>,
                      <<LetFn("countDown", <<"x">>, CountDown),
                        Expr(Call(Id("countDown"), <<Num(n)>>))>>),
                Expr(Call(Id("wrapper"), <<>>))>>)
      : n \in Depths }
    \cup
    { \* let make = fn(k) { let sum = fn(x) { if (x == 0) { k } else { x + sum(x - 1) } }; sum };
      \* make(10)(n)
      Program(<<LetFn("make", <<"k">>,
                      <<LetFn("sum", <<"x">>,
                              <<Expr(IfElse(Infix(Id("x"), "==", Num(0)),
                                            <<Expr(Id("k"))>>,
                                            <<Expr(Infix(Id("x"), "+",
                                                  Call(Id("sum"),
                                                       <<Infix(Id("x"), "-", Num(1))>>)))>>))>>),
                        Expr(Id("sum"))>>),
                Expr(Call(Call(Id("make"), <<Num(10)>>), <<Num(n)>>))>>)
      : n \in Depths }

ShadowPrograms ==
    { \* let f = fn(n) { fn() { f } }; f(1)() == f
      Program(<<LetFn("f", <<"n">>, <<Expr(Fn(<<>>, <<Expr(Id("f"))>>))>>),
                Expr(Infix(Call(Call(Id("f"), <<Num(1)>>), <<>>), "==", Id("f")))>>),
      \* let f = fn(f) { f }; f(3)
      Program(<<LetFn("f", <<"f">>, <<Expr(Id("f"))>>),
                Expr(Call(Id("f"), <<Num(3)>>))>>),
      \* let f = fn() { let f = 2; f }; f()
      Program(<<LetFn("f", <<>>, <<Let("f", Num(2)), Expr(Id("f"))>>),
                Expr(Call(Id("f"), <<>>))>>) }
    \cup
    { \* let outer = fn() {
      \*     let f = fn(n) { if (n == 0) { 0 } else { fn() { f(n - 1) }() } }; f(n)
      \* }; outer()
      Program(<<LetFn("outer", <<>>,
                      <<LetFn("f", <<"n">>,
                              <<Expr(IfElse(Infix(Id("n"), "==", Num(0)),
                                            <<Expr(Num(0))>>,
                                            <<Expr(Call(Fn(<<>>,
                                                  <<Expr(Call(Id("f"),
                                                      <<Infix(Id("n"), "-", Num(1))>>))>>),
                                                  <<>>))>>))>>),
                        Expr(Call(Id("f"), <<Num(n)>>))>>),
                Expr(Call(Id("outer"), <<>>))>>)
      : n \in Depths }

\* The statement lists an if-expression is given as a block.
Blocks ==
    { <<>>,
      <<Expr(Num(1))>>,
      <<Let("v", Num(1))>>,
      <<Expr(Num(1)), Let("v", Num(2))>>,
      <<Let("v", Num(1)), Expr(Id("v"))>>,
      <<ReturnStatement(Num(3))>> }

IfExpressions ==
    { If(Bool(c), consequence) : c \in BOOLEAN, consequence \in Blocks }
    \cup
    { IfElse(Bool(c), consequence, alternative) :
          c \in BOOLEAN, consequence \in Blocks, alternative \in Blocks }

\* An if-expression x in seven places.
IfPrograms ==
    { \* x
      Program(<<Expr(x)>>) : x \in IfExpressions }
    \cup
    { \* let r = x; r
      Program(<<Let("r", x), Expr(Id("r"))>>) : x \in IfExpressions }
    \cup
    { \* fn() { x }()
      Program(<<Expr(Call(Fn(<<>>, <<Expr(x)>>), <<>>))>>) : x \in IfExpressions }
    \cup
    { \* [7, fn() { x; x; 5 }()]
      Program(<<Expr(ArrayLiteral(<<Num(7),
                    Call(Fn(<<>>, <<Expr(x), Expr(x), Expr(Num(5))>>), <<>>)>>))>>)
      : x \in IfExpressions }
    \cup
    { \* fn() { let a = 1; x; 2; a }()
      Program(<<Expr(Call(Fn(<<>>, <<Let("a", Num(1)), Expr(x), Expr(Num(2)),
                                     Expr(Id("a"))>>), <<>>))>>)
      : x \in IfExpressions }
    \cup
    { \* fn() { let a = 1; let b = 2; x; fn() { a + b } }()()
      Program(<<Expr(Call(Call(Fn(<<>>, <<Let("a", Num(1)), Let("b", Num(2)), Expr(x),
                                          Expr(Fn(<<>>, <<Expr(Infix(Id("a"), "+",
                                                                     Id("b")))>>))>>),
                               <<>>), <<>>))>>)
      : x \in IfExpressions }
    \cup
    { \* let g = fn() { x; x; 7; 8 }; fn() { let a = 1; g(); a }()
      Program(<<LetFn("g", <<>>, <<Expr(x), Expr(x), Expr(Num(7)), Expr(Num(8))>>),
                Expr(Call(Fn(<<>>, <<Let("a", Num(1)), Expr(Call(Id("g"), <<>>)),
                                     Expr(Id("a"))>>), <<>>))>>)
      : x \in IfExpressions }

\* The names of the locals of the function that the wide recursion calls.
LocalNames ==
    <<"l01", "l02", "l03", "l04", "l05", "l06", "l07", "l08", "l09", "l10",
      "l11", "l12", "l13", "l14", "l15", "l16", "l17", "l18", "l19", "l20",
      "l21", "l22", "l23", "l24", "l25", "l26", "l27", "l28", "l29", "l30",
      "l31", "l32", "l33", "l34", "l35", "l36", "l37", "l38", "l39", "l40",
      "l41", "l42", "l43", "l44", "l45", "l46", "l47", "l48", "l49", "l50",
      "l51", "l52", "l53", "l54", "l55", "l56", "l57", "l58", "l59", "l60">>

\* Recursion that never ends: the stack fills up.
\* let f = fn() { f() }; f()
Endless ==
    Program(<<LetFn("f", <<>>, <<Expr(Call(Id("f"), <<>>))>>),
              Expr(Call(Id("f"), <<>>))>>)

DeepPrograms ==
    { \* let f = fn(a) { if (a == 0) { let l01 = 0; ... let l60 = 0; }; f(a) }; f(1)
      Program(<<LetFn("f", <<"a">>,
                      <<Expr(If(Infix(Id("a"), "==", Num(0)),
                                [i \in DOMAIN LocalNames |-> Let(LocalNames[i], Num(0))])),
                        Expr(Call(Id("f"), <<Id("a")>>))>>),
                Expr(Call(Id("f"), <<Num(1)>>))>>),
      \* let f = fn(a) { [a, f(a)] }; f(1)
      Program(<<LetFn("f", <<"a">>,
                      <<Expr(ArrayLiteral(<<Id("a"), Call(Id("f"), <<Id("a")>>)>>))>>),
                Expr(Call(Id("f"), <<Num(1)>>))>>),
      Endless }

\* if-expressions inside the consequence and the alternative of another
NestedIfPrograms ==
    { \* if (true) { if (false) { 1 } else { 2 } } else { if (true) { 3 } }
      Program(<<Expr(IfElse(Bool(TRUE),
                            <<Expr(IfElse(Bool(FALSE), <<Expr(Num(1))>>, <<Expr(Num(2))>>))>>,
                            <<Expr(If(Bool(TRUE), <<Expr(Num(3))>>))>>))>>),
      \* if (false) { 1 } else { if (true) { if (false) { 2 } }; 4 }
      Program(<<Expr(IfElse(Bool(FALSE), <<Expr(Num(1))>>,
                            <<Expr(If(Bool(TRUE), <<Expr(If(Bool(FALSE),
                                                           <<Expr(Num(2))>>))>>)),
                              Expr(Num(4))>>))>>),
      \* fn(a) { if (a) { if (a) { 1 } else { 2 } } }(true); if (true) { 5 }
      Program(<<Expr(Call(Fn(<<"a">>,
                             <<Expr(If(Id("a"),
                                       <<Expr(IfElse(Id("a"), <<Expr(Num(1))>>,
                                                     <<Expr(Num(2))>>))>>))>>),
                          <<Bool(TRUE)>>)),
                Expr(If(Bool(TRUE), <<Expr(Num(5))>>))>>) }

\* Programs the compiler rejects, in the main scope and in a function's.
RejectedPrograms ==
    { \* x
      Program(<<Expr(Id("x"))>>),
      \* 1; fn() { x }
      Program(<<Expr(Num(1)), Expr(Fn(<<>>, <<Expr(Id("x"))>>))>>),
      \* fn() { fn() { x } }
      Program(<<Expr(Fn(<<>>, <<Expr(Fn(<<>>, <<Expr(Id("x"))>>))>>))>>) }

Programs ==
    NestedIfPrograms \cup RejectedPrograms \cup
    ArithmeticPrograms \cup CollectionPrograms \cup FunctionPrograms
    \cup ClosurePrograms \cup RecursivePrograms \cup ShadowPrograms
    \cup IfPrograms \cup DeepPrograms \cup HashPrograms \cup ReplPrograms

(***************************************************************************)
(* package vm.  The state of a run: the fields of the VM struct, the       *)
(* outcome of Run, and history variables that the properties read.         *)
(***************************************************************************)
VARIABLES
    program,        \* the AST given to Compile
    compiled,       \* history: what Compile returned (error, closureLog)
    constants,      \* vm.constants
    globals,        \* vm.globals, up to the highest slot written
    stack,          \* vm.stack, up to the highest slot written
    stackPointer,   \* vm.stackPointer
    frames,         \* vm.frames, up to the highest frame written
    frameIndex,     \* vm.frameIndex
    nextId,         \* the number of objects allocated at run time
    status,         \* "running", or how Run ended: "done", "error", "panic"
    error,          \* the error Run returned, or the panic's message
    lastOp,         \* history: the opcode of the instruction executed last
    callLog,        \* history: one record per live frame pushed by OpCall
    lastReturn,     \* history: the call that returned last and what it returned
    captured,       \* history: per closure created, the values of its free symbols
    lastPopped,     \* history: the value and stack pointer of the last OpPop
    pending,        \* history: the values of the free symbols at the closure site
                    \* that the current frame has begun to execute
    lowest,         \* history: how low the last instruction took the stack pointer
    lastWrite,      \* history: the stack slot the last instruction assigned
    runs,           \* history: how the first of two runs of the program ended,
                    \* and the stack pointer after each instruction of this run
    encoding,       \* package code on its own: an opcode and operands, the
                    \* instruction Make built of them, what ReadOperands read
    tables,         \* the symbol table on its own: a chain of tables and
                    \* the last operation on it
    buffer,         \* the compiler's scopes on their own: the calls a
                    \* compilation makes on them and the scopes after the
                    \* calls made so far
    listing,        \* Instructions.String: the instructions, the locals
                    \* index and out of its loop and how the call stands
    repl            \* repl.Start: the symbol table and the constants it
                    \* keeps from line to line, the number of lines read,
                    \* where the loop is and what it wrote last

vmVars == <<program, compiled, constants, globals, stack, stackPointer, frames,
            frameIndex, nextId, status, error, lastOp, callLog, lastReturn,
            captured, pending, lastPopped, lowest, lastWrite, runs>>

compilerVars == <<buffer, listing, repl>>

vars == <<vmVars, encoding, tables, compilerVars>>

\* encoding, tables and buffer while a program runs.
NoEncoding == [op |-> -1]

NoTables == [chain |-> <<>>]

NoBuffer == [calls |-> <<>>]

NoRepl == [phase |-> "off"]

NoListing == [status |-> "off"]

NoCompiler == buffer = NoBuffer /\ listing = NoListing /\ repl = NoRepl

StackSize == 2048

GlobalsSize == 65535

MaxFrames == 1024

\* A Go array of nil slots of which only a prefix has been written.
SlotGet(slots, i) == IF i + 1 <= Len(slots) THEN slots[i + 1] ELSE Nil

SlotPut(slots, i, obj) ==
    IF i + 1 <= Len(slots) THEN [slots EXCEPT ![i + 1] = obj]
    ELSE slots \o [k \in 1 .. (i - Len(slots)) |-> Nil] \o <<obj>>

NewFrame(cl, basePointer) ==
    [cl |-> cl, instructionPointer |-> -1, basePointer |-> basePointer]

Instructions(frame) == frame.cl.Fn.Instructions

(***************************************************************************)
(* The VM as a value: the methods of VM are operators from a VM record to  *)
(* a VM record.  halt is "" while Run goes on, "error" once a method has   *)
(* returned an error and "panic" once Go has panicked; a halted VM is left *)
(* as it is by everything that follows in the same handler.  popped holds  *)
(* the result of the last pop.  Two fields are history: low is the lowest  *)
(* value the stack pointer has had while the handler took values off the   *)
(* stack, wrote the index of the stack slot the handler has assigned (-1   *)
(* when it has assigned none; no handler assigns two).                     *)
(***************************************************************************)
Halted(vm) == vm.halt # ""

Fail(vm, message) ==
    IF Halted(vm) THEN vm ELSE [vm EXCEPT !.halt = "error", !.message = message]

Panic(vm, message) ==
    IF Halted(vm) THEN vm ELSE [vm EXCEPT !.halt = "panic", !.message = message]

IndexOutOfRange == <<"runtime error: index out of range">>

NilDereference == <<"runtime error: invalid memory address or nil pointer dereference">>

currentFrame(vm) == vm.frames[vm.frameIndex]

\* vm.currentFrame().instructionPointer += n
AdvanceIP(vm, n) ==
    IF Halted(vm) THEN vm
    ELSE [vm EXCEPT !.frames[vm.frameIndex].instructionPointer = @ + n]

push(vm, obj) ==
    IF Halted(vm) THEN vm
    ELSE IF vm.stackPointer >= StackSize THEN Fail(vm, <<"stack overflow">>)
    ELSE IF vm.stackPointer < 0 THEN Panic(vm, IndexOutOfRange)
    ELSE [vm EXCEPT !.stack = SlotPut(@, vm.stackPointer, obj),
                    !.stackPointer = @ + 1,
                    !.wrote = vm.stackPointer]

\* The stack pointer has been as low as pointer.
Lowered(vm, pointer) ==
    [vm EXCEPT !.low = IF pointer < @ THEN pointer ELSE @]

\* pop that also clears the slot it has read.
popAndClear(vm) ==
    IF Halted(vm) THEN vm
    ELSE IF vm.stackPointer - 1 < 0 \/ vm.stackPointer - 1 >= StackSize
    THEN Panic(Lowered(vm, vm.stackPointer - 1), IndexOutOfRange)
    ELSE [Lowered(vm, vm.stackPointer - 1) EXCEPT
             !.popped = SlotGet(vm.stack, vm.stackPointer - 1),
             !.stack = SlotPut(@, vm.stackPointer - 1, Nil),
             !.stackPointer = @ - 1]

pop(vm) ==
    IF Halted(vm) THEN vm
    ELSE IF vm.stackPointer - 1 < 0 \/ vm.stackPointer - 1 >= StackSize
    THEN Panic(Lowered(vm, vm.stackPointer - 1), IndexOutOfRange)
    ELSE [Lowered(vm, vm.stackPointer - 1) EXCEPT
             !.popped = SlotGet(vm.stack, vm.stackPointer - 1),
             !.stackPointer = @ - 1]

\* vm.stack[i], read
StackRead(vm, i) == SlotGet(vm.stack, i)

StackInRange(i) == i >= 0 /\ i < StackSize

\* A fresh identity for an object allocated at run time.
Allocate(vm) == [vm EXCEPT !.nextId = @ + 1]

NewId(vm) == -(vm.nextId + 1)

nativeBoolToBooleanObject(input) == IF input THEN True ELSE False

isTruthy(obj) ==
    CASE obj.type = "BOOLEAN" -> obj.bool
      [] obj.type = "NULL" -> FALSE
      [] OTHER -> TRUE

\* Go's == on two object.Object values: the same pointer.
SameObject(a, b) ==
    /\ a.type = b.type
    /\ CASE a.type = "BOOLEAN" -> a.bool = b.bool
         [] a.type \in {"NULL", "nil"} -> TRUE
         [] a.type = "BUILTIN" -> a.builtin = b.builtin
         [] a.type \in {"STRING", "ARRAY", "HASH", "CLOSURE", "ERROR"} -> a.id = b.id
         [] OTHER -> FALSE

\* Go's / on int64 truncates toward zero.
Quotient(a, b) ==
    LET abs(x) == IF x < 0 THEN -x ELSE x
        q == abs(a) \div abs(b)
    IN IF (a < 0) = (b < 0) THEN q ELSE -q

executeBinaryIntegerOperation(vm, op, left, right) ==
    CASE op = OpAdd -> push(vm, Integer(left.int + right.int))
      [] op = OpSub -> push(vm, Integer(left.int - right.int))
      [] op = OpMul -> push(vm, Integer(left.int * right.int))
      [] op = OpDiv ->
            IF right.int = 0
            THEN Panic(vm, <<"runtime error: integer divide by zero">>)
            ELSE push(vm, Integer(Quotient(left.int, right.int)))
      [] OTHER -> Fail(vm, <<"unknown integer operator: %d", op>>)

executeBinaryStringOperation(vm, op, left, right) ==
    IF op # OpAdd THEN Fail(vm, <<"unknown string operator: %d", op>>)
    ELSE push(Allocate(vm), String(left.str \o right.str, NewId(vm)))

executeBinaryOperation(vm, op) ==
    LET r == pop(vm)
        l == pop(r)
        right == r.popped
        left == l.popped
    IN IF Halted(l) THEN l
       ELSE IF left.type = "nil" \/ right.type = "nil" THEN Panic(l, NilDereference)
       ELSE IF left.type = "INTEGER" /\ right.type = "INTEGER"
       THEN executeBinaryIntegerOperation(l, op, left, right)
       ELSE IF left.type = "STRING" /\ right.type = "STRING"
       THEN executeBinaryStringOperation(l, op, left, right)
       ELSE Fail(l, <<"unsupported types for binary operation: %s %s",
                      left.type, right.type>>)

executeIntegerComparison(vm, op, left, right) ==
    CASE op = OpEqual -> push(vm, nativeBoolToBooleanObject(right.int = left.int))
      [] op = OpNotEqual -> push(vm, nativeBoolToBooleanObject(right.int # left.int))
      [] op = OpGreaterThan -> push(vm, nativeBoolToBooleanObject(left.int > right.int))
      [] OTHER -> Fail(vm, <<"unknown operator: %d", op>>)

executeComparison(vm, op) ==
    LET r == pop(vm)
        l == pop(r)
        right == r.popped
        left == l.popped
    IN IF Halted(l) THEN l
       ELSE IF left.type = "nil" THEN Panic(l, NilDereference)
       ELSE IF left.type = "INTEGER" /\ right.type = "nil" THEN Panic(l, NilDereference)
       ELSE IF left.type = "INTEGER" /\ right.type = "INTEGER"
       THEN executeIntegerComparison(l, op, left, right)
       ELSE CASE op = OpEqual ->
                    push(l, nativeBoolToBooleanObject(SameObject(right, left)))
              [] op = OpNotEqual ->
                    push(l, nativeBoolToBooleanObject(~SameObject(right, left)))
              [] OTHER ->
                    IF right.type = "nil" THEN Panic(l, NilDereference)
                    ELSE Fail(l, <<"unknown operator: %d (%s %s)", op,
                                   left.type, right.type>>)

executeBangOperator(vm) ==
    LET operand == pop(vm)
    IN IF Halted(operand) THEN operand
       ELSE IF operand.popped = True THEN push(operand, False)
       ELSE IF operand.popped \in {False, Null} THEN push(operand, True)
       ELSE push(operand, False)

executeMinusOperator(vm) ==
    LET operand == pop(vm)
    IN IF Halted(operand) THEN operand
       ELSE IF operand.popped.type = "nil" THEN Panic(operand, NilDereference)
       ELSE IF operand.popped.type # "INTEGER"
       THEN Fail(operand, <<"unsupported type for negation: %s", operand.popped.type>>)
       ELSE push(operand, Integer(-operand.popped.int))


\* buildArray copies vm.stack[startIndex:endIndex] into a new Array.
buildArray(vm, startIndex, endIndex) ==
    IF Halted(vm) THEN vm
    ELSE IF endIndex - startIndex < 0
    THEN Panic(vm, <<"runtime error: makeslice: len out of range">>)
    ELSE IF endIndex > startIndex /\ (startIndex < 0 \/ endIndex > StackSize)
    THEN Panic(Lowered(vm, startIndex), IndexOutOfRange)
    ELSE [Allocate(Lowered(vm, startIndex)) EXCEPT !.popped =
             Array([i \in 1 .. (endIndex - startIndex) |->
                        StackRead(vm, startIndex + i - 1)], NewId(vm))]

Hashable(obj) == obj.type \in {"INTEGER", "BOOLEAN", "STRING"}

\* Integer, Boolean and String HashKey(): the type and a 64-bit value; the
\* value of a String, a hash of its bytes, is given by the bytes themselves.
HashKey(obj) ==
    CASE obj.type = "INTEGER" -> [Type |-> "INTEGER", IntKey |-> obj.int]
      [] obj.type = "BOOLEAN" -> [Type |-> "BOOLEAN", IntKey |-> IF obj.bool THEN 1 ELSE 0]
      [] obj.type = "STRING" -> [Type |-> "STRING", StrKey |-> obj.str]

\* hashedPairs[hashKey] = pair on a map kept as a sequence of entries.
PairsPut(pairs, hashKey, pair) ==
    IF \E i \in DOMAIN pairs : pairs[i].hashKey = hashKey
    THEN [i \in DOMAIN pairs |->
             IF pairs[i].hashKey = hashKey
             THEN [hashKey |-> hashKey, pair |-> pair] ELSE pairs[i]]
    ELSE Append(pairs, [hashKey |-> hashKey, pair |-> pair])

RECURSIVE HashPairs(_, _, _, _)
HashPairs(vm, index, endIndex, pairs) ==
    IF Halted(vm) \/ index >= endIndex THEN [vm EXCEPT !.popped = pairs]
    ELSE IF ~StackInRange(index) \/ ~StackInRange(index + 1)
    THEN Panic(Lowered(vm, index), IndexOutOfRange)
    ELSE LET key == StackRead(vm, index)
             value == StackRead(vm, index + 1)
         IN IF key.type = "nil" THEN Panic(vm, NilDereference)
            ELSE IF ~Hashable(key)
            THEN Fail(vm, <<"unusable as hash key: %s", key.type>>)
            ELSE HashPairs(vm, index + 2, endIndex,
                           PairsPut(pairs, HashKey(key),
                                    [Key |-> key, Value |-> value]))

buildHash(vm, startIndex, endIndex) ==
    LET built == HashPairs(Lowered(vm, startIndex), startIndex, endIndex, <<>>)
    IN IF Halted(built) THEN built
       ELSE [Allocate(built) EXCEPT !.popped = Hash(built.popped, NewId(built))]

executeArrayIndexChecked(vm, array, index) ==
    LET i == index.int
        max == Len(array.elements) - 1
    IN IF i < 0 \/ i > max THEN Fail(vm, <<"index out of range: %d", i>>)
       ELSE push(vm, array.elements[i + 1])

executeArrayIndex(vm, array, index) ==
    LET i == index.int
        max == Len(array.elements) - 1
    IN IF i < 0 \/ i > max THEN push(vm, Null)
       ELSE push(vm, array.elements[i + 1])

executeHashIndex(vm, hash, index) ==
    IF ~Hashable(index)
    THEN IF index.type = "nil" THEN Panic(vm, NilDereference)
         ELSE Fail(vm, <<"unusable as hash key: %s", index.type>>)
    ELSE LET found == {i \in DOMAIN hash.pairs : hash.pairs[i].hashKey = HashKey(index)}
         IN IF found = {} THEN push(vm, Null)
            ELSE push(vm, hash.pairs[CHOOSE i \in found : TRUE].pair.Value)

executeIndexExpressionNamingIndex(vm, left, index) ==
    IF Halted(vm) THEN vm
    ELSE IF left.type = "nil" THEN Panic(vm, NilDereference)
    ELSE IF left.type = "ARRAY" /\ index.type = "nil" THEN Panic(vm, NilDereference)
    ELSE IF left.type = "ARRAY" /\ index.type = "INTEGER"
    THEN executeArrayIndex(vm, left, index)
    ELSE IF left.type = "HASH" THEN executeHashIndex(vm, left, index)
    ELSE Fail(vm, <<"index operator not supported: %s", index.type>>)

executeIndexExpression(vm, left, index) ==
    IF Halted(vm) THEN vm
    ELSE IF left.type = "nil" THEN Panic(vm, NilDereference)
    ELSE IF left.type = "ARRAY" /\ index.type = "nil" THEN Panic(vm, NilDereference)
    ELSE IF left.type = "ARRAY" /\ index.type = "INTEGER"
    THEN executeArrayIndex(vm, left, index)
    ELSE IF left.type = "HASH" THEN executeHashIndex(vm, left, index)
    ELSE Fail(vm, <<"index operator not supported: %s", left.type>>)

\* vm.frames[vm.frameIndex] = f; vm.frameIndex++
pushFrame(vm, f) ==
    IF Halted(vm) THEN vm
    ELSE IF vm.frameIndex >= MaxFrames \/ vm.frameIndex < 0
    THEN Panic(vm, IndexOutOfRange)
    ELSE [vm EXCEPT !.frames = SlotPut(@, vm.frameIndex, f), !.frameIndex = @ + 1]

\* vm.frameIndex--; return vm.frames[vm.frameIndex]: the frame is read with
\* PoppedFrame before the call.
popFrame(vm) ==
    IF Halted(vm) THEN vm
    ELSE IF vm.frameIndex - 1 < 0 THEN Panic([vm EXCEPT !.frameIndex = @ - 1], IndexOutOfRange)
    ELSE [vm EXCEPT !.frameIndex = @ - 1]

PoppedFrame(vm) == vm.frames[vm.frameIndex]

\* callClosure that enters the closure whatever the number of arguments.
callClosureUnchecked(vm, cl, numArgs) ==
    LET frame == NewFrame(cl, vm.stackPointer - numArgs)
        pushed == pushFrame(vm, frame)
    IN IF Halted(pushed) THEN pushed
       ELSE [pushed EXCEPT !.stackPointer = frame.basePointer + cl.Fn.NumLocals]

callClosure(vm, cl, numArgs) ==
    IF numArgs # cl.Fn.NumParameters
    THEN Fail(vm, <<"wrong number of arguments: want=%d, got=%d",
                    cl.Fn.NumParameters, numArgs>>)
    ELSE LET frame == NewFrame(cl, vm.stackPointer - numArgs)
             pushed == pushFrame(vm, frame)
         IN IF Halted(pushed) THEN pushed
            ELSE [pushed EXCEPT !.stackPointer = frame.basePointer + cl.Fn.NumLocals]

(***************************************************************************)
(* object.Builtins: the native functions, by registration index.  The      *)
(* result is the value the builtin returns (Nil when it returns nothing).  *)
(***************************************************************************)
WrongArguments(got, want) ==
    <<"wrong number of arguments. got=%d, want=%d", got, want>>

BuiltinLen(args, id) ==
    IF Len(args) # 1 THEN Error(WrongArguments(Len(args), 1), id)
    ELSE CASE args[1].type = "ARRAY" -> Integer(Len(args[1].elements))
           [] args[1].type = "STRING" -> Integer(Len(args[1].str))
           [] OTHER -> Error(<<"argument to len not supported, got %s", args[1].type>>, id)

BuiltinFirst(args, id) ==
    IF Len(args) # 1 THEN Error(WrongArguments(Len(args), 1), id)
    ELSE IF args[1].type # "ARRAY"
    THEN Error(<<"argument to first must be ARRAY, got %s", args[1].type>>, id)
    ELSE IF Len(args[1].elements) > 0 THEN args[1].elements[1] ELSE Nil

BuiltinLast(args, id) ==
    IF Len(args) # 1 THEN Error(WrongArguments(Len(args), 1), id)
    ELSE IF args[1].type # "ARRAY"
    THEN Error(<<"argument to last must be ARRAY, got %s", args[1].type>>, id)
    ELSE IF Len(args[1].elements) > 0
    THEN args[1].elements[Len(args[1].elements)] ELSE Nil

BuiltinRest(args, id) ==
    IF Len(args) # 1 THEN Error(WrongArguments(Len(args), 1), id)
    ELSE IF args[1].type # "ARRAY"
    THEN Error(<<"argument to rest must be ARRAY, got %s", args[1].type>>, id)
    ELSE IF Len(args[1].elements) > 0 THEN Array(Tail(args[1].elements), id) ELSE Nil

BuiltinPush(args, id) ==
    IF Len(args) # 2 THEN Error(WrongArguments(Len(args), 2), id)
    ELSE IF args[1].type # "ARRAY"
    THEN Error(<<"argument to push must be ARRAY, got %s", args[1].type>>, id)
    ELSE Array(Append(args[1].elements, args[2]), id)

BuiltinFn(index, args, id) ==
    CASE index = 0 -> BuiltinLen(args, id)
      [] index = 1 -> Nil
      [] index = 2 -> BuiltinFirst(args, id)
      [] index = 3 -> BuiltinLast(args, id)
      [] index = 4 -> BuiltinRest(args, id)
      [] index = 5 -> BuiltinPush(args, id)

\* callBuiltin that takes the arguments off the stack and leaves the callee.
callBuiltinKeepsCallee(vm, builtin, numArgs) ==
    IF numArgs > 0 /\ (vm.stackPointer - numArgs < 0 \/ vm.stackPointer > StackSize)
    THEN Panic(Lowered(vm, vm.stackPointer - numArgs - 1), IndexOutOfRange)
    ELSE IF \E i \in 1 .. numArgs : StackRead(vm, vm.stackPointer - numArgs + i - 1).type = "nil"
    THEN Panic(vm, NilDereference)
    ELSE LET args == [i \in 1 .. numArgs |->
                         StackRead(vm, vm.stackPointer - numArgs + i - 1)]
             result == BuiltinFn(builtin.builtin, args, NewId(vm))
             called == [Allocate(Lowered(vm, vm.stackPointer - numArgs)) EXCEPT
                           !.stackPointer = @ - numArgs]
             pushed == IF result # Nil THEN push(called, result) ELSE push(called, Null)
         IN IF pushed.halt = "error" THEN called ELSE pushed

\* callBuiltin drops what push returns: Run goes on whatever it is.
callBuiltin(vm, builtin, numArgs) ==
    IF numArgs > 0 /\ (vm.stackPointer - numArgs < 0 \/ vm.stackPointer > StackSize)
    THEN Panic(Lowered(vm, vm.stackPointer - numArgs - 1), IndexOutOfRange)
    ELSE IF \E i \in 1 .. numArgs : StackRead(vm, vm.stackPointer - numArgs + i - 1).type = "nil"
    THEN Panic(vm, NilDereference)
    ELSE LET args == [i \in 1 .. numArgs |->
                         StackRead(vm, vm.stackPointer - numArgs + i - 1)]
             result == BuiltinFn(builtin.builtin, args, NewId(vm))
             called == [Allocate(Lowered(vm, vm.stackPointer - numArgs - 1)) EXCEPT
                           !.stackPointer = @ - numArgs - 1]
             pushed == IF result # Nil THEN push(called, result) ELSE push(called, Null)
         IN IF pushed.halt = "error" THEN called ELSE pushed

executeCall(vm, numArgs) ==
    IF Halted(vm) THEN vm
    ELSE IF ~StackInRange(vm.stackPointer - 1 - numArgs)
    THEN Panic(Lowered(vm, vm.stackPointer - 1 - numArgs), IndexOutOfRange)
    ELSE LET callee == StackRead(vm, vm.stackPointer - 1 - numArgs)
         IN CASE callee.type = "CLOSURE" -> callClosure(vm, callee, numArgs)
              [] callee.type = "BUILTIN" -> callBuiltin(vm, callee, numArgs)
              [] OTHER -> Fail(vm, <<"calling non-function and non-built-in">>)

pushClosure(vm, constIndex, numFree) ==
    IF Halted(vm) THEN vm
    ELSE IF constIndex >= Len(vm.constants) THEN Panic(vm, IndexOutOfRange)
    ELSE LET function == vm.constants[constIndex + 1]
         IN IF function.type # "COMPILED_FUNCTION_OBJ"
            THEN Fail(vm, <<"not a function: %+v", function>>)
            ELSE IF numFree > 0 /\ (vm.stackPointer - numFree < 0
                                     \/ vm.stackPointer > StackSize)
            THEN Panic(Lowered(vm, vm.stackPointer - numFree), IndexOutOfRange)
            ELSE LET free == [i \in 1 .. numFree |->
                                 StackRead(vm, vm.stackPointer - numFree + i - 1)]
                     closure == Closure(function, free, NewId(vm))
                 IN push([Allocate(Lowered(vm, vm.stackPointer - numFree)) EXCEPT
                             !.stackPointer = @ - numFree], closure)


(***************************************************************************)
(* VM.Run: the loop and one action per case of its switch.                 *)
(***************************************************************************)
Frame == frames[frameIndex]

\* for vm.currentFrame().instructionPointer < len(vm.currentFrame().Instructions())-1
LoopGuard ==
    /\ status = "running"
    /\ Frame.instructionPointer < Len(Instructions(Frame)) - 1

\* instructionPointer, the local of Run, after the increment
IP == Frame.instructionPointer + 1

Op == Instructions(Frame)[IP + 1]

Decode(op) == LoopGuard /\ Op = op

Operand16 == ReadUint16(Instructions(Frame), IP + 1)

Operand8 == ReadUint8(Instructions(Frame), IP + 1)

\* The VM at the top of the loop body, after instructionPointer++.
Fetched ==
    AdvanceIP([constants |-> constants, globals |-> globals, stack |-> stack,
               stackPointer |-> stackPointer, frames |-> frames,
               frameIndex |-> frameIndex, nextId |-> nextId,
               halt |-> "", message |-> <<>>, popped |-> Nil,
               low |-> stackPointer, wrote |-> -1], 1)

\* Reading an operand past the end of the instructions panics.
Truncated(op) == IP + SumSeq(OperandWidths(op)) >= Len(Instructions(Frame))

(***************************************************************************)
(* History.  None of it is read by a handler.                              *)
(***************************************************************************)
\* The closure sites with free symbols that start at the instruction the
\* current frame is executing.
SitesHere ==
    {i \in DOMAIN compiled.closureLog :
        LET site == compiled.closureLog[i]
        IN /\ site.freeSymbols # <<>>
           /\ site.start = IP
           /\ IP + Len(site.site) <= Len(Instructions(Frame))
           /\ SubSeq(Instructions(Frame), IP + 1, IP + Len(site.site)) = site.site}

\* The value a symbol of the enclosing scope names in the current frame.
SymbolValue(symbol) ==
    CASE symbol.Scope = LocalScope -> SlotGet(stack, Frame.basePointer + symbol.Index)
      [] symbol.Scope = FreeScope ->
            IF symbol.Index < Len(Frame.cl.Free) THEN Frame.cl.Free[symbol.Index + 1]
            ELSE Nil
      [] symbol.Scope = FunctionScope -> Frame.cl
      [] symbol.Scope = GlobalScope -> SlotGet(globals, symbol.Index)
      [] OTHER -> Builtin(symbol.Index)

\* The caller's side of a call at the moment the callee's frame is pushed.
CallRecord(numArgs) ==
    [stackPointer |-> stackPointer,
     numArgs |-> numArgs,
     frameIndex |-> frameIndex,
     calleeSlot |-> stackPointer - numArgs - 1,
     callee |-> SlotGet(stack, stackPointer - numArgs - 1),
     arguments |-> [i \in 1 .. numArgs |->
                       SlotGet(stack, stackPointer - numArgs + i - 1)],
     changedBelow |-> FALSE]

\* The handler has changed the value of the stack slot it assigned.
Changed(end) == end.wrote >= 0 /\ SlotGet(stack, end.wrote) # SlotGet(end.stack, end.wrote)

\* callLog with the calls marked whose slots below the callee the handler
\* has changed.
Marked(end) ==
    IF ~Changed(end) THEN callLog
    ELSE [i \in DOMAIN callLog |->
             IF end.wrote < callLog[i].calleeSlot
             THEN [callLog[i] EXCEPT !.changedBelow = TRUE]
             ELSE callLog[i]]

Returns == {OpReturnValue, OpReturn}

History(op, end) ==
    LET framePushed == op = OpCall /\ ~Halted(end) /\ end.frameIndex = frameIndex + 1
        framePopped == op \in Returns /\ ~Halted(end) /\ callLog # <<>>
        marked == Marked(end)
    IN /\ lastOp' = op
       /\ lowest' = [stackPointer |-> end.low,
                     floor |-> Frame.basePointer + Frame.cl.Fn.NumLocals]
       /\ lastWrite' = [index |-> end.wrote, op |-> op, frameIndex |-> frameIndex,
                        changed |-> Changed(end)]
       /\ callLog' = IF framePushed THEN Append(marked, CallRecord(Operand8))
                     ELSE IF framePopped THEN SubSeq(marked, 1, Len(marked) - 1)
                     ELSE marked
       /\ lastReturn' = IF framePopped
                        THEN [call |-> marked[Len(marked)],
                              value |-> IF op = OpReturnValue THEN end.popped ELSE Null,
                              stackPointer |-> stackPointer,
                              floor |-> Frame.basePointer + Frame.cl.Fn.NumLocals]
                        ELSE lastReturn
       /\ pending' = IF SitesHere = {} THEN pending
                     ELSE LET site == compiled.closureLog[CHOOSE i \in SitesHere : TRUE]
                          IN [fnIndex |-> site.fnIndex,
                              values |-> [i \in DOMAIN site.freeSymbols |->
                                             SymbolValue(site.freeSymbols[i])]]
       /\ captured' = IF op = OpClosure /\ ~Halted(end)
                      THEN Append(captured,
                                  [id |-> NewId(Fetched),
                                   values |-> IF pending.fnIndex = Operand16
                                              THEN pending.values ELSE <<>>])
                      ELSE captured
       /\ lastPopped' = IF op = OpPop /\ ~Halted(end)
                        THEN [value |-> end.popped, stackPointer |-> end.stackPointer]
                        ELSE lastPopped

\* The programs that are compiled and run twice: for these, runs records
\* the stack pointer after every instruction.
Traced == program \in TwicePrograms

\* The state after the handler of op has left the VM as vm.
Commit(op, vm) ==
    LET end == IF Truncated(op) THEN Panic(Fetched, IndexOutOfRange) ELSE vm
    IN /\ constants' = end.constants
       /\ globals' = end.globals
       /\ stack' = end.stack
       /\ stackPointer' = end.stackPointer
       /\ frames' = end.frames
       /\ frameIndex' = end.frameIndex
       /\ nextId' = end.nextId
       /\ status' = IF end.halt = "" THEN "running" ELSE end.halt
       /\ error' = end.message
       /\ History(op, end)
       /\ runs' = [runs EXCEPT !.pointers = IF Traced THEN Append(@, end.stackPointer)
                                            ELSE @]
       /\ UNCHANGED <<program, compiled, encoding, tables, compilerVars>>

ExecOpConstant ==
    /\ Decode(OpConstant)
    /\ LET constantIndex == Operand16
           vm == AdvanceIP(Fetched, 2)
       IN Commit(OpConstant,
                 IF constantIndex >= Len(constants) THEN Panic(vm, IndexOutOfRange)
                 ELSE push(vm, constants[constantIndex + 1]))

ExecOpSetGlobal ==
    /\ Decode(OpSetGlobal)
    /\ LET globalIndex == Operand16
           vm == pop(AdvanceIP(Fetched, 2))
       IN Commit(OpSetGlobal,
                 IF Halted(vm) THEN vm
                 ELSE IF globalIndex >= GlobalsSize THEN Panic(vm, IndexOutOfRange)
                 ELSE [vm EXCEPT !.globals = SlotPut(@, globalIndex, vm.popped)])

ExecOpGetGlobal ==
    /\ Decode(OpGetGlobal)
    /\ LET globalIndex == Operand16
           vm == AdvanceIP(Fetched, 2)
       IN Commit(OpGetGlobal,
                 IF globalIndex >= GlobalsSize THEN Panic(vm, IndexOutOfRange)
                 ELSE push(vm, SlotGet(globals, globalIndex)))

ExecOpSetLocal ==
    /\ Decode(OpSetLocal)
    /\ LET localIndex == Operand8
           vm == pop(AdvanceIP(Fetched, 1))
           slot == Frame.basePointer + localIndex
       IN Commit(OpSetLocal,
                 IF Halted(vm) THEN vm
                 ELSE IF ~StackInRange(slot) THEN Panic(vm, IndexOutOfRange)
                 ELSE [vm EXCEPT !.stack = SlotPut(@, slot, vm.popped),
                                 !.wrote = slot])

ExecOpGetLocal ==
    /\ Decode(OpGetLocal)
    /\ LET localIndex == Operand8
           vm == AdvanceIP(Fetched, 1)
           slot == Frame.basePointer + localIndex
       IN Commit(OpGetLocal,
                 IF ~StackInRange(slot) THEN Panic(vm, IndexOutOfRange)
                 ELSE push(vm, StackRead(vm, slot)))

ExecOpGetBuiltin ==
    /\ Decode(OpGetBuiltin)
    /\ LET builtinIndex == Operand8
           vm == AdvanceIP(Fetched, 1)
       IN Commit(OpGetBuiltin,
                 IF builtinIndex >= Len(Builtins) THEN Panic(vm, IndexOutOfRange)
                 ELSE push(vm, Builtin(builtinIndex)))

ExecOpGetFree ==
    /\ Decode(OpGetFree)
    /\ LET freeIndex == Operand8
           vm == AdvanceIP(Fetched, 1)
           currentClosure == Frame.cl
       IN Commit(OpGetFree,
                 IF freeIndex >= Len(currentClosure.Free) THEN Panic(vm, IndexOutOfRange)
                 ELSE push(vm, currentClosure.Free[freeIndex + 1]))

ExecOpArray ==
    /\ Decode(OpArray)
    /\ LET numberElements == Operand16
           vm == AdvanceIP(Fetched, 2)
           array == buildArray(vm, stackPointer - numberElements, stackPointer)
       IN Commit(OpArray,
                 IF Halted(array) THEN array
                 ELSE push([array EXCEPT !.stackPointer = @ - numberElements],
                           array.popped))

ExecOpHash ==
    /\ Decode(OpHash)
    /\ LET numberElements == Operand16
           vm == AdvanceIP(Fetched, 2)
           hash == buildHash(vm, stackPointer - numberElements, stackPointer)
       IN Commit(OpHash,
                 IF Halted(hash) THEN hash
                 ELSE push([hash EXCEPT !.stackPointer = @ - numberElements],
                           hash.popped))

ExecOpClosure ==
    /\ Decode(OpClosure)
    /\ LET constIndex == Operand16
           numFree == ReadUint8(Instructions(Frame), IP + 3)
       IN Commit(OpClosure, pushClosure(AdvanceIP(Fetched, 3), constIndex, numFree))

ExecOpCurrentClosure ==
    /\ Decode(OpCurrentClosure)
    /\ LET currentClosure == Frame.cl
       IN Commit(OpCurrentClosure, push(Fetched, currentClosure))

ExecOpIndex ==
    /\ Decode(OpIndex)
    /\ LET index == pop(Fetched)
           left == pop(index)
       IN Commit(OpIndex, executeIndexExpression(left, left.popped, index.popped))

\* case code.OpAdd, code.OpSub, code.OpMul, code.OpDiv
ExecArithmetic ==
    /\ LoopGuard
    /\ Op \in {OpAdd, OpSub, OpMul, OpDiv}
    /\ Commit(Op, executeBinaryOperation(Fetched, Op))

ExecOpTrue ==
    /\ Decode(OpTrue)
    /\ Commit(OpTrue, push(Fetched, True))

ExecOpFalse ==
    /\ Decode(OpFalse)
    /\ Commit(OpFalse, push(Fetched, False))

ExecOpCall ==
    /\ Decode(OpCall)
    /\ LET numArgs == Operand8
       IN Commit(OpCall, executeCall(AdvanceIP(Fetched, 1), numArgs))

ExecOpReturnValue ==
    /\ Decode(OpReturnValue)
    /\ LET returnValue == pop(Fetched)
           frame == PoppedFrame(returnValue)
           popped == popFrame(returnValue)
       IN Commit(OpReturnValue,
                 IF Halted(popped) THEN popped
                 ELSE push([popped EXCEPT !.stackPointer = frame.basePointer - 1],
                           returnValue.popped))

ExecOpReturn ==
    /\ Decode(OpReturn)
    /\ LET frame == PoppedFrame(Fetched)
           popped == popFrame(Fetched)
       IN Commit(OpReturn,
                 IF Halted(popped) THEN popped
                 ELSE push([popped EXCEPT !.stackPointer = frame.basePointer - 1],
                           Null))

\* case code.OpEqual, code.OpNotEqual, code.OpGreaterThan
ExecComparison ==
    /\ LoopGuard
    /\ Op \in {OpEqual, OpNotEqual, OpGreaterThan}
    /\ Commit(Op, executeComparison(Fetched, Op))

ExecOpBang ==
    /\ Decode(OpBang)
    /\ Commit(OpBang, executeBangOperator(Fetched))

ExecOpMinus ==
    /\ Decode(OpMinus)
    /\ Commit(OpMinus, executeMinusOperator(Fetched))

ExecOpJump ==
    /\ Decode(OpJump)
    /\ LET position == Operand16
       IN Commit(OpJump,
                 [Fetched EXCEPT !.frames[frameIndex].instructionPointer = position - 1])

ExecOpJumpNotTrue ==
    /\ Decode(OpJumpNotTrue)
    /\ LET position == Operand16
           condition == pop(AdvanceIP(Fetched, 2))
       IN Commit(OpJumpNotTrue,
                 IF Halted(condition) \/ isTruthy(condition.popped) THEN condition
                 ELSE [condition EXCEPT
                          !.frames[frameIndex].instructionPointer = position - 1])

ExecOpNull ==
    /\ Decode(OpNull)
    /\ Commit(OpNull, push(Fetched, Null))

\* vm.pop() with the result dropped
ExecOpPop ==
    /\ Decode(OpPop)
    /\ Commit(OpPop, pop(Fetched))

\* The loop condition is false: Run returns nil.
RunReturns ==
    /\ status = "running"
    /\ ~(Frame.instructionPointer < Len(Instructions(Frame)) - 1)
    /\ status' = "done"
    /\ UNCHANGED <<program, compiled, constants, globals, stack, stackPointer, frames,
                   frameIndex, nextId, error, lastOp, callLog, lastReturn, captured,
                   pending, lastPopped, lowest, lastWrite, runs, encoding, tables,
                   compilerVars>>

(***************************************************************************)
(* vm.New on the bytecode of the compiled program, and Run.  A program the *)
(* compiler rejects is never run.                                          *)
(***************************************************************************)
MainClosure(bytecode) == Closure(CompiledFunction(bytecode.Instructions, 0, 0), <<>>, -1)

\* No run has ended yet.
NoRun == [status |-> ""]

\* How the compiler is made: by New, or by NewWithState on the symbol table
\* and the constants that repl.Start has before its first line.
Constructors == {"New", "NewWithState"}

Construct(constructor) ==
    IF constructor = "New" THEN New ELSE NewWithState(<<NewSymbolTable>>, <<>>)

\* The compiler after Compile(program), made by constructor, in a process
\* that ranges over maps as enumeration says.
Compiled(constructor, enumeration, ast) ==
    Compile([Construct(constructor) EXCEPT !.enumeration = enumeration], ast)

\* The state vm.New leaves for the bytecode of compiler c.
StartOf(c, constructor) ==
    [compiled |-> [error |-> c.error, closureLog |-> c.closureLog,
                   identLog |-> c.identLog, statementEnds |-> c.statementEnds,
                   bytecode |-> Bytecode(c), constructor |-> constructor,
                   scopeIndex |-> c.scopeIndex,
                   symbolTables |-> Len(c.symbolTable),
                   mainInstructions |-> c.scopes[1].instructions],
     constants |-> c.constants,
     frames |-> <<NewFrame(MainClosure(Bytecode(c)), 0)>>,
     status |-> IF Failed(c) THEN "compile error" ELSE "running",
     error |-> c.error]

InitOf(c, constructor) ==
    LET start == StartOf(c, constructor)
    IN /\ compiled = start.compiled
       /\ constants = start.constants
       /\ globals = <<>>
       /\ stack = <<>>
       /\ stackPointer = 0
       /\ frames = start.frames
       /\ frameIndex = 1
       /\ nextId = 1
       /\ status = start.status
       /\ error = start.error
       /\ lastOp = -1
       /\ callLog = <<>>
       /\ lastReturn = [value |-> Nil]
       /\ captured = <<>>
       /\ pending = [fnIndex |-> -1, values |-> <<>>]
       /\ lastPopped = [value |-> Nil, stackPointer |-> 0]
       /\ lowest = [stackPointer |-> 0, floor |-> 0]
       /\ lastWrite = [index |-> -1, op |-> -1, frameIndex |-> 1, changed |-> FALSE]
       /\ runs = [first |-> NoRun, pointers |-> <<>>]
       /\ encoding = NoEncoding
       /\ tables = NoTables
       /\ NoCompiler

\* The orders a process can range over the Pairs of the program's hash
\* literals in.
EnumerationsOf(ast) == IF ast \in HashPrograms THEN Enumerations ELSE {0}

ConstructorsOf(ast) == IF ast \in ReplPrograms THEN Constructors ELSE {"New"}

Init ==
    /\ program \in Programs
    /\ \E constructor \in ConstructorsOf(program), enumeration \in EnumerationsOf(program) :
          InitOf(Compiled(constructor, enumeration, program), constructor)

\* The same AST is compiled and run a second time, by the same constructor
\* in a process that may range over maps in another order.
RunAgain ==
    /\ status \in {"done", "error", "panic"}
    /\ Traced
    /\ runs.first = NoRun
    /\ \E enumeration \in EnumerationsOf(program) :
          LET start == StartOf(Compiled(compiled.constructor, enumeration, program),
                               compiled.constructor)
          IN /\ compiled' = start.compiled
             /\ constants' = start.constants
             /\ frames' = start.frames
             /\ status' = start.status
             /\ error' = start.error
    /\ globals' = <<>>
    /\ stack' = <<>>
    /\ stackPointer' = 0
    /\ frameIndex' = 1
    /\ nextId' = 1
    /\ lastOp' = -1
    /\ callLog' = <<>>
    /\ lastReturn' = [value |-> Nil]
    /\ captured' = <<>>
    /\ pending' = [fnIndex |-> -1, values |-> <<>>]
    /\ lastPopped' = [value |-> Nil, stackPointer |-> 0]
    /\ lowest' = [stackPointer |-> 0, floor |-> 0]
    /\ lastWrite' = [index |-> -1, op |-> -1, frameIndex |-> 1, changed |-> FALSE]
    /\ runs' = [first |-> [status |-> status, error |-> error,
                           bytecode |-> compiled.bytecode,
                           value |-> IF status = "done" THEN SlotGet(stack, stackPointer)
                                     ELSE Nil,
                           pointers |-> runs.pointers],
                pointers |-> <<>>]
    /\ UNCHANGED <<program, encoding, tables, compilerVars>>

Next ==
    \/ ExecOpConstant
    \/ ExecOpSetGlobal
    \/ ExecOpGetGlobal
    \/ ExecOpSetLocal
    \/ ExecOpGetLocal
    \/ ExecOpGetBuiltin
    \/ ExecOpGetFree
    \/ ExecOpArray
    \/ ExecOpHash
    \/ ExecOpClosure
    \/ ExecOpCurrentClosure
    \/ ExecOpIndex
    \/ ExecArithmetic
    \/ ExecOpTrue
    \/ ExecOpFalse
    \/ ExecOpCall
    \/ ExecOpReturnValue
    \/ ExecOpReturn
    \/ ExecComparison
    \/ ExecOpBang
    \/ ExecOpMinus
    \/ ExecOpJump
    \/ ExecOpJumpNotTrue
    \/ ExecOpNull
    \/ ExecOpPop
    \/ RunReturns
    \/ RunAgain

Spec == Init /\ [][Next]_vars

(***************************************************************************)
(* Run on the programs whose jumps are the matter: an if-expression as a   *)
(* statement and as the value of a let, which call nothing, and the nested *)
(* if-expressions.  Run is a loop that nothing suspends: while it has a    *)
(* next step it takes it.                                                  *)
(***************************************************************************)
JumpPrograms ==
    NestedIfPrograms
    \cup { Program(<<Expr(x)>>) : x \in IfExpressions }
    \cup { Program(<<Let("r", x), Expr(Id("r"))>>) : x \in IfExpressions }

JumpInit ==
    /\ program \in JumpPrograms
    /\ InitOf(Compiled("New", 0, program), "New")

JumpNext ==
    \/ ExecOpConstant
    \/ ExecOpSetGlobal
    \/ ExecOpGetGlobal
    \/ ExecOpGetLocal
    \/ ExecOpClosure
    \/ ExecOpTrue
    \/ ExecOpFalse
    \/ ExecOpCall
    \/ ExecOpReturnValue
    \/ ExecOpJump
    \/ ExecOpJumpNotTrue
    \/ ExecOpNull
    \/ ExecOpPop
    \/ RunReturns

JumpSpec == JumpInit /\ [][JumpNext]_vars /\ WF_vars(JumpNext)

(***************************************************************************)
(* Package code on its own: Make and ReadOperands applied to every opcode  *)
(* with operands at the ends and in the middle of each operand's range.    *)
(* No program runs.                                                        *)
(***************************************************************************)
NoProgram ==
    /\ program = NoNode
    /\ compiled = <<>>
    /\ constants = <<>>
    /\ globals = <<>>
    /\ stack = <<>>
    /\ stackPointer = 0
    /\ frames = <<>>
    /\ frameIndex = 0
    /\ nextId = 0
    /\ status = "idle"
    /\ error = <<>>
    /\ lastOp = -1
    /\ callLog = <<>>
    /\ lastReturn = <<>>
    /\ captured = <<>>
    /\ pending = <<>>
    /\ lastPopped = <<>>
    /\ lowest = <<>>
    /\ lastWrite = <<>>
    /\ runs = <<>>

\* Operands of a width: the least, the greatest, and values whose high and
\* low bytes differ.
OperandValues(width) ==
    {0, 1, 2 ^ (8 * width - 1), 2 ^ (8 * width) - 2, 2 ^ (8 * width) - 1}
    \cup {255 * k + 1 : k \in 1 .. (IF width = 2 THEN MaxSample ELSE 0)}

\* The operand lists with one entry per operand of the opcode.
OperandLists(op) ==
    LET widths == OperandWidths(op)
    IN {xs \in [1 .. Len(widths) -> OperandValues(1) \cup OperandValues(2)] :
           \A i \in DOMAIN widths : xs[i] \in OperandValues(widths[i])}

CodeInit ==
    /\ NoProgram
    /\ tables = NoTables
    /\ NoCompiler
    /\ \E op \in Opcodes : \E operands \in OperandLists(op) :
          encoding = [op |-> op, operands |-> operands, instruction |-> <<>>,
                      made |-> FALSE, read |-> FALSE, operandsRead |-> <<>>,
                      offset |-> 0]

\* instruction := code.Make(op, operands...)
MakeInstruction ==
    /\ encoding.op >= 0
    /\ ~encoding.made
    /\ encoding' = [encoding EXCEPT !.instruction = Make(encoding.op, encoding.operands),
                                    !.made = TRUE]
    /\ UNCHANGED <<vmVars, tables, compilerVars>>

\* operandsRead, n := code.ReadOperands(definition, Instructions(instruction)[1:])
ReadInstruction ==
    /\ encoding.op >= 0
    /\ encoding.made
    /\ ~encoding.read
    /\ LET result == ReadOperands(OperandWidths(encoding.op), Tail(encoding.instruction))
       IN encoding' = [encoding EXCEPT !.read = TRUE,
                                       !.operandsRead = result.operands,
                                       !.offset = result.offset]
    /\ UNCHANGED <<vmVars, tables, compilerVars>>

CodeNext == MakeInstruction \/ ReadInstruction

CodeSpec == CodeInit /\ [][CodeNext]_vars

(***************************************************************************)
(* The symbol table on its own: a chain of tables, outermost first, as     *)
(* NewEnclosedSymbolTable builds it.  Names are defined in and resolved    *)
(* from the innermost table, the one the compiler holds.                   *)
(* tables.calls is history: the number of Define calls on each     *)
(* table; tables.made is the number of enclosed tables made so far;        *)
(* tables.last is history: the last operation, its table, its argument,    *)
(* what it returned and the chain before it.                               *)
(***************************************************************************)
\* The greatest number of tables NewEnclosedSymbolTable makes.
MaxTables == 3

\* The greatest number of Define calls.
MaxDefinitions == 2

\* The names let statements and parameters define, and all names.
Defined == {"a", "b"}

Names == Defined \cup {Builtins[1]}

Operation(op, k, name, result, ok) ==
    [op |-> op, table |-> k, name |-> name, symbol |-> result, ok |-> ok,
     before |-> tables.chain]

SymbolInit ==
    /\ NoProgram
    /\ encoding = NoEncoding
    /\ NoCompiler
    /\ tables = [chain |-> <<NewSymbolTable>>, calls |-> <<0>>, made |-> 0,
                 last |-> [op |-> "NewSymbolTable"]]

\* NewEnclosedSymbolTable(innermost)
Enclose ==
    /\ tables.chain # <<>>
    /\ tables.made < MaxTables
    /\ tables' = [chain |-> Append(tables.chain, NewSymbolTable),
                  calls |-> Append(tables.calls, 0),
                  made |-> tables.made + 1,
                  last |-> [op |-> "NewEnclosedSymbolTable"]]
    /\ UNCHANGED <<vmVars, encoding, compilerVars>>

\* The innermost table is dropped, as leaveScope drops it.
Leave ==
    /\ Len(tables.chain) > 1
    /\ tables' = [chain |-> SubSeq(tables.chain, 1, Len(tables.chain) - 1),
                  calls |-> SubSeq(tables.calls, 1, Len(tables.calls) - 1),
                  made |-> tables.made,
                  last |-> [op |-> "Outer"]]
    /\ UNCHANGED <<vmVars, encoding, compilerVars>>

DefineName ==
    /\ tables.chain # <<>>
    /\ LET k == Len(tables.chain)
       IN /\ SumSeq(tables.calls) < MaxDefinitions
          /\ \E name \in Defined :
                LET defined == Define(tables.chain, k, name)
                IN tables' = [tables EXCEPT
                                 !.chain = defined.tables,
                                 !.calls[k] = @ + 1,
                                 !.last = Operation("Define", k, name, defined.symbol,
                                                    TRUE)]
    /\ UNCHANGED <<vmVars, encoding, compilerVars>>

\* Builtins are registered in a table that encloses nothing yet, as New does.
DefineBuiltinName ==
    /\ Len(tables.chain) = 1
    /\ \E index \in DOMAIN Builtins :
          LET k == Len(tables.chain)
              name == Builtins[index]
              defined == DefineBuiltin(tables.chain, k, index - 1, name)
          IN /\ name \in Names
             /\ tables' = [tables EXCEPT
                              !.chain = defined.tables,
                              !.last = Operation("DefineBuiltin", k, name,
                                                 defined.symbol, TRUE)]
    /\ UNCHANGED <<vmVars, encoding, compilerVars>>

\* The name of a function literal is the first name of its table.
DefineFunction ==
    /\ Len(tables.chain) > 1
    /\ tables.chain[Len(tables.chain)].store = <<>>
    /\ \E name \in Defined :
          LET k == Len(tables.chain)
              defined == DefineFunctionName(tables.chain, k, name)
          IN tables' = [tables EXCEPT
                           !.chain = defined.tables,
                           !.last = Operation("DefineFunctionName", k, name,
                                              defined.symbol, TRUE)]
    /\ UNCHANGED <<vmVars, encoding, compilerVars>>

\* Resolve on the innermost table, the one the compiler holds.
ResolveName ==
    /\ tables.chain # <<>>
    /\ \E name \in Names :
          LET k == Len(tables.chain)
              resolved == Resolve(tables.chain, k, name)
          IN tables' = [tables EXCEPT
                           !.chain = resolved.tables,
                           !.last = Operation("Resolve", k, name, resolved.symbol,
                                              resolved.ok)]
    /\ UNCHANGED <<vmVars, encoding, compilerVars>>

SymbolNext ==
    \/ Enclose
    \/ Leave
    \/ DefineName
    \/ DefineBuiltinName
    \/ DefineFunction
    \/ ResolveName

SymbolSpec == SymbolInit /\ [][SymbolNext]_vars

(***************************************************************************)
(* The compiler's scopes on their own.  buffer.calls is the calls one      *)
(* compilation of a program makes on its scopes, in order, with their      *)
(* arguments; each action makes the next call on buffer.c, a compiler      *)
(* that starts as New returns it.  buffer.last is the call made last.      *)
(***************************************************************************)
BufferPrograms == NestedIfPrograms \cup IfPrograms \cup ClosurePrograms

BufferInit ==
    /\ NoProgram
    /\ encoding = NoEncoding
    /\ tables = NoTables
    /\ repl = NoRepl
    /\ listing = NoListing
    /\ \E ast \in BufferPrograms :
          buffer = [calls |-> Compile([New EXCEPT !.tracing = TRUE], ast).calls,
                    at |-> 0, c |-> New, last |-> [op |-> "New"]]

NextCall == buffer.calls[buffer.at + 1]

Calls(op) ==
    /\ buffer.calls # <<>>
    /\ buffer.at < Len(buffer.calls)
    /\ NextCall.op = op

Made(c) ==
    /\ buffer' = [buffer EXCEPT !.at = @ + 1, !.c = c, !.last = NextCall]
    /\ UNCHANGED <<vmVars, encoding, tables, listing, repl>>

CallEmit == Calls("emit") /\ Made(emit(buffer.c, NextCall.opcode, NextCall.operands))

CallRemoveLastPop == Calls("removeLastPop") /\ Made(removeLastPop(buffer.c))

CallReplaceLastPopWithReturn ==
    Calls("replaceLastPopWithReturn") /\ Made(replaceLastPopWithReturn(buffer.c))

CallChangeOperand ==
    /\ Calls("changeOperand")
    /\ Made(changeOperand(buffer.c, NextCall.opPosition, NextCall.operand))

CallEnterScope == Calls("enterScope") /\ Made(enterScope(buffer.c))

CallLeaveScope == Calls("leaveScope") /\ Made(leaveScope(buffer.c))

BufferNext ==
    \/ CallEmit
    \/ CallRemoveLastPop
    \/ CallReplaceLastPopWithReturn
    \/ CallChangeOperand
    \/ CallEnterScope
    \/ CallLeaveScope

BufferSpec == BufferInit /\ [][BufferNext]_vars

(***************************************************************************)
(* Instructions.String on a byte sequence.  StringLoop is one iteration of *)
(* its loop, StringReturns the return of out.String().  A line of out is   *)
(* kept as the values handed to Fprintf.  An iteration that reads operand  *)
(* bytes past the end of the slice panics.                                 *)
(***************************************************************************)
\* The length of the byte sequences and the number of lines written.
MaxBytes == 4

MaxListing == 6

\* Four defined opcodes, of no, one and two operands, and an undefined one;
\* as operand bytes they are small and large values.
SampleBytes == {OpConstant, OpAdd, OpGetLocal, OpClosure, 255}

ByteSequences == UNION {[1 .. n -> SampleBytes] : n \in 0 .. MaxBytes}

\* Lookup: the definition of the opcode, or an error
Lookup(op) ==
    IF op \in Opcodes THEN [ok |-> TRUE, OperandWidths |-> OperandWidths(op), op |-> op]
    ELSE [ok |-> FALSE, error |-> <<"opcode %d undefined", op>>]

fmtInstruction(definition, operands) ==
    IF Len(operands) # Len(definition.OperandWidths)
    THEN <<"ERROR: operand len %d does not match defined %d\n",
           Len(operands), Len(definition.OperandWidths)>>
    ELSE <<definition.op>> \o operands

StringInit ==
    /\ NoProgram
    /\ encoding = NoEncoding
    /\ tables = NoTables
    /\ buffer = NoBuffer
    /\ repl = NoRepl
    /\ \E ins \in ByteSequences :
          listing = [ins |-> ins, index |-> 0, out |-> <<>>, status |-> "running"]

StringLoop ==
    /\ listing.status = "running"
    /\ listing.index < Len(listing.ins)
    /\ Len(listing.out) < MaxListing
    /\ LET ins == listing.ins
           index == listing.index
           definition == Lookup(ins[index + 1])
       IN IF ~definition.ok
          THEN listing' = [listing EXCEPT
                              !.out = Append(@, <<"ERROR: %s\n", definition.error>>)]
          ELSE IF index + 1 + SumSeq(definition.OperandWidths) > Len(ins)
          THEN listing' = [listing EXCEPT !.status = "panic"]
          ELSE LET result == ReadOperands(definition.OperandWidths,
                                          SubSeq(ins, index + 2, Len(ins)))
               IN listing' = [listing EXCEPT
                                 !.out = Append(@, <<"%04d %s\n", index,
                                                     fmtInstruction(definition,
                                                                    result.operands)>>),
                                 !.index = index + 1 + result.offset]
    /\ UNCHANGED <<vmVars, encoding, tables, buffer, repl>>

StringReturns ==
    /\ listing.status = "running"
    /\ ~(listing.index < Len(listing.ins))
    /\ listing' = [listing EXCEPT !.status = "done"]
    /\ UNCHANGED <<vmVars, encoding, tables, buffer, repl>>

StringNext == StringLoop \/ StringReturns

StringSpec == StringInit /\ [][StringNext]_vars

(***************************************************************************)
(* The body of a function of many let statements, compiled one statement   *)
(* at a time: buffer.c is the compiler inside the function's scope, after  *)
(* enterScope, and CompileLet is Compile of the next statement             *)
(* let v<n> = true; on it.                                                 *)
(***************************************************************************)
\* The number of let statements of the body.
MaxLets == 260

LetName(n) == "v" \o ToString(n)

LetInit ==
    /\ NoProgram
    /\ encoding = NoEncoding
    /\ tables = NoTables
    /\ repl = NoRepl
    /\ listing = NoListing
    /\ buffer = [calls |-> <<>>, at |-> 0, c |-> enterScope(New),
                 last |-> [op |-> "enterScope"]]

CompileLet ==
    /\ buffer.at < MaxLets
    /\ ~Failed(buffer.c)
    /\ LET name == LetName(buffer.at)
           c == Compile(buffer.c, Let(name, Bool(TRUE)))
           table == c.symbolTable[Len(c.symbolTable)]
       IN buffer' = [buffer EXCEPT !.at = @ + 1, !.c = c,
                                   !.last = [op |-> "LetStatement",
                                             symbol |-> table.store[name],
                                             position |->
                                                 c.scopes[c.scopeIndex + 1].lastInstruction.Position]]
    /\ UNCHANGED <<vmVars, encoding, tables, listing, repl>>

LetNext == CompileLet

LetSpec == LetInit /\ [][LetNext]_vars

(***************************************************************************)
(* repl.Start.  One symbol table, one constants slice and one globals      *)
(* store live as long as the loop; every line gets a new compiler, made by *)
(* NewWithState of the table and the constants, and a new VM, made by      *)
(* NewWithGlobalsStore of the bytecode and the store.  ReadLine is the     *)
(* loop body up to machine.Run, the instructions of Run are the actions of *)
(* the VM, WriteResult is the rest of the loop body.                       *)
(***************************************************************************)
\* LastPoppedStackElem: vm.stack[vm.stackPointer]
LastPoppedStackElem == SlotGet(stack, stackPointer)

\* The number of lines read.
MaxLines == 3

ReplLines ==
    { \* let a = 1;
      Program(<<Let("a", Num(1))>>),
      \* a
      Program(<<Expr(Id("a"))>>),
      \* let a = b;
      Program(<<Let("a", Id("b"))>>),
      \* let b = -true;
      Program(<<Let("b", PrefixExpression("-", Bool(TRUE)))>>),
      \* b
      Program(<<Expr(Id("b"))>>),
      \* let b = a;
      Program(<<Let("b", Id("a"))>>),
      \* the empty line
      Program(<<>>) }

ReplInit ==
    /\ NoProgram
    /\ encoding = NoEncoding
    /\ tables = NoTables
    /\ buffer = NoBuffer
    /\ listing = NoListing
    /\ repl = [symbolTable |-> NewSymbolTable, constants |-> <<>>, lines |-> 0,
               phase |-> "prompt", out |-> <<>>]

ReadLine ==
    /\ repl.phase = "prompt"
    /\ repl.lines < MaxLines
    /\ \E line \in ReplLines :
          LET c == Compile(NewWithState(<<repl.symbolTable>>, repl.constants), line)
              start == StartOf(c, "NewWithState")
          IN /\ program' = line
             /\ compiled' = start.compiled
             /\ constants' = start.constants
             /\ frames' = start.frames
             /\ status' = start.status
             /\ error' = start.error
             /\ repl' = [symbolTable |-> c.symbolTable[1],
                         constants |-> IF Failed(c) THEN repl.constants ELSE c.constants,
                         lines |-> repl.lines + 1,
                         phase |-> IF Failed(c) THEN "prompt" ELSE "running",
                         out |-> IF Failed(c)
                                 THEN <<"Whoops! Compilation failed:", c.error>>
                                 ELSE <<>>]
    /\ stack' = <<>>
    /\ stackPointer' = 0
    /\ frameIndex' = 1
    /\ nextId' = 1
    /\ lastOp' = -1
    /\ callLog' = <<>>
    /\ lastReturn' = [value |-> Nil]
    /\ captured' = <<>>
    /\ pending' = [fnIndex |-> -1, values |-> <<>>]
    /\ lastPopped' = [value |-> Nil, stackPointer |-> 0]
    /\ lowest' = [stackPointer |-> 0, floor |-> 0]
    /\ lastWrite' = [index |-> -1, op |-> -1, frameIndex |-> 1, changed |-> FALSE]
    /\ runs' = [first |-> NoRun, pointers |-> <<>>]
    /\ UNCHANGED <<globals, encoding, tables, buffer, listing>>

\* lastPoppedItem.Inspect() of a nil interface value ends the process
WriteResult ==
    /\ repl.phase = "running"
    /\ status \in {"done", "error", "panic"}
    /\ repl' = [repl EXCEPT
                   !.phase = IF status = "panic" \/ (status = "done"
                                                     /\ LastPoppedStackElem = Nil)
                             THEN "panic" ELSE "prompt",
                   !.out = IF status = "error"
                           THEN <<"Whoops! Executing bytecode failed:", error>>
                           ELSE IF status = "done" /\ LastPoppedStackElem # Nil
                           THEN <<"Inspect", LastPoppedStackElem>>
                           ELSE <<>>]
    /\ UNCHANGED <<vmVars, encoding, tables, buffer, listing>>

ReplNext ==
    \/ ReadLine
    \/ ExecOpConstant
    \/ ExecOpTrue
    \/ ExecOpMinus
    \/ ExecOpSetGlobal
    \/ ExecOpGetGlobal
    \/ ExecOpPop
    \/ RunReturns
    \/ WriteResult

ReplSpec == ReplInit /\ [][ReplNext]_vars

(***************************************************************************)
(* The last calls of let f = fn() { f() }; f() before the frames array is  *)
(* full.  Descended(n) is the state of the VM when the n-th nested call of *)
(* f has pushed its frame: Run is in it after 2 n + 2 instructions         *)
(* (DescendedInRun).                                                       *)
(***************************************************************************)
\* The number of frames still free where the specification starts.
FreeFrames == 52

Descended(n) ==
    LET c == Compiled("New", 0, Endless)
        f == Closure(c.constants[1], <<>>, -2)
        main == NewFrame(MainClosure(Bytecode(c)), 0)
    IN /\ program = Endless
       /\ compiled = StartOf(c, "New").compiled
       /\ constants = c.constants
       /\ globals = <<f>>
       /\ stack = [i \in 1 .. n |-> f]
       /\ stackPointer = n
       /\ frames = <<[main EXCEPT !.instructionPointer = 11]>>
                    \o [i \in 1 .. n - 1 |->
                           [NewFrame(f, i) EXCEPT !.instructionPointer = 2]]
                    \o <<NewFrame(f, n)>>
       /\ frameIndex = n + 1
       /\ nextId = 2
       /\ status = "running"
       /\ error = <<>>
       /\ lastOp = OpCall
       /\ callLog = [i \in 1 .. n |->
                        [stackPointer |-> i, numArgs |-> 0, frameIndex |-> i,
                         calleeSlot |-> i - 1, callee |-> f, arguments |-> <<>>,
                         changedBelow |-> FALSE]]
       /\ lastReturn = [value |-> Nil]
       /\ captured = <<[id |-> -2, values |-> <<>>]>>
       /\ pending = [fnIndex |-> -1, values |-> <<>>]
       /\ lastPopped = [value |-> Nil, stackPointer |-> 0]
       /\ lowest = [stackPointer |-> n, floor |-> n - 1]
       /\ lastWrite = [index |-> -1, op |-> OpCall, frameIndex |-> n, changed |-> FALSE]
       /\ runs = [first |-> NoRun, pointers |-> <<>>]
       /\ encoding = NoEncoding
       /\ tables = NoTables
       /\ NoCompiler

\* Run of the program is in Descended(n) when it has made n nested calls.
DescendedInRun ==
    (program = Endless /\ lastOp = OpCall /\ status = "running"
        /\ frameIndex = MaxFrames - FreeFrames) =>
        Descended(MaxFrames - FreeFrames - 1)

DeepInit == Descended(MaxFrames - FreeFrames - 1)

DeepNext ==
    \/ ExecOpCurrentClosure
    \/ ExecOpCall

DeepSpec == DeepInit /\ [][DeepNext]_vars


(***************************************************************************)
(* Properties.                                                             *)
(***************************************************************************)
Running == status = "running"

\* The instruction that loads a symbol.
LoadOf(symbol) ==
    CASE symbol.Scope = GlobalScope -> Make(OpGetGlobal, <<symbol.Index>>)
      [] symbol.Scope = LocalScope -> Make(OpGetLocal, <<symbol.Index>>)
      [] symbol.Scope = BuiltinScope -> Make(OpGetBuiltin, <<symbol.Index>>)
      [] symbol.Scope = FreeScope -> Make(OpGetFree, <<symbol.Index>>)
      [] symbol.Scope = FunctionScope -> Make(OpCurrentClosure, <<>>)

RECURSIVE LoadsOf(_)
LoadsOf(symbols) ==
    IF symbols = <<>> THEN <<>>
    ELSE LoadOf(Head(symbols)) \o LoadsOf(Tail(symbols))

\* The one-byte operand of the instruction executed last.
LastOperand8 == Instructions(Frame)[Frame.instructionPointer + 1]

\* What was logged when the closure of the current frame was created.
CapturedByCurrent ==
    captured[CHOOSE i \in DOMAIN captured : captured[i].id = Frame.cl.id]

\* C1: for every function literal compiled, with free symbols s_0..s_{k-1},
\* the enclosing scope emits exactly the loads of s_0..s_{k-1} in that order
\* and then OpClosure fnIdx k; and whenever OpGetFree i has just executed,
\* the value it pushed is the value s_i had in the enclosing frame when that
\* frame came to the closure site at which the closure of the current frame
\* was created.
C1_FreeOrder ==
    /\ \A i \in DOMAIN compiled.closureLog :
          LET site == compiled.closureLog[i]
          IN site.site = LoadsOf(site.freeSymbols)
                         \o Make(OpClosure, <<site.fnIndex, Len(site.freeSymbols)>>)
    /\ (Running /\ lastOp = OpGetFree) =>
          /\ \E i \in DOMAIN captured : captured[i].id = Frame.cl.id
          /\ LastOperand8 < Len(CapturedByCurrent.values)
          /\ stack[stackPointer] = CapturedByCurrent.values[LastOperand8 + 1]

\* A closure call has just returned to a VM that goes on running.
Returned == Running /\ lastOp \in Returns

\* C2: when a call of a closure has just returned through OpReturnValue or
\* OpReturn, the stack pointer is the stack pointer before the OpCall minus
\* the number of arguments, the top slot holds the value returned (Null for
\* OpReturn), the frame index is what it was before the call, and no slot
\* below the callee's slot has changed since the call.
C2_CallReturn ==
    Returned =>
        /\ stackPointer = lastReturn.call.stackPointer - lastReturn.call.numArgs
        /\ stack[stackPointer] = lastReturn.value
        /\ lastOp = OpReturn => stack[stackPointer] = Null
        /\ frameIndex = lastReturn.call.frameIndex
        /\ ~lastReturn.call.changedBelow

\* OpCall has just pushed the frame of a closure.
Entered == Running /\ lastOp = OpCall /\ frameIndex > 1 /\ Frame.instructionPointer = -1

\* The local slots [basePointer, basePointer + NumLocals) of the j-th frame.
LocalSlots(j) ==
    frames[j].basePointer .. (frames[j].basePointer + frames[j].cl.Fn.NumLocals - 1)

\* C3: on entry to a closure the local slots 0..argc-1 hold the arguments the
\* caller pushed, in order; and a local slot of a live frame is assigned only
\* by an OpSetLocal that the frame itself executes.
C3_Locals ==
    /\ Entered =>
          \A i \in 1 .. callLog[Len(callLog)].numArgs :
              SlotGet(stack, Frame.basePointer + i - 1) = callLog[Len(callLog)].arguments[i]
    /\ \A j \in 1 .. frameIndex :
          lastWrite.index \in LocalSlots(j) =>
              lastWrite.op = OpSetLocal /\ lastWrite.frameIndex = j

\* The entries of identLog that name a function literal being compiled.
OwnReferences ==
    {i \in DOMAIN compiled.identLog :
        /\ \E k \in DOMAIN compiled.identLog[i].owners :
              compiled.identLog[i].owners[k] = compiled.identLog[i].name
        /\ compiled.identLog[i].symbol.Scope # LocalScope}

\* The own references that stand in the body of the literal itself, not in
\* a function literal nested in it.
DirectReferences ==
    {i \in OwnReferences :
        compiled.identLog[i].owners[Len(compiled.identLog[i].owners)]
            = compiled.identLog[i].name}

C5_NoUnderflow ==
    /\ lowest.stackPointer >= 0
    /\ lowest.stackPointer >= lowest.floor

\* The main frame stands at the end of a top-level statement.
AtStatementEnd ==
    /\ status \in {"running", "done"}
    /\ frameIndex = 1
    /\ \/ Frame.instructionPointer + 1 = 0
       \/ \E k \in DOMAIN compiled.statementEnds :
             compiled.statementEnds[k] = Frame.instructionPointer + 1

\* C6: whenever the main frame stands at the end of a top-level statement
\* the stack pointer is 0, and it is 0 when Run has returned without error.
C6_NetZero ==
    /\ AtStatementEnd => stackPointer = 0
    /\ status = "done" => stackPointer = 0 /\ frameIndex = 1

\* Run has returned after a program of three statements that call functions.
C6_Witness ==
    /\ status = "done"
    /\ Len(program.Statements) >= 3
    /\ Len(stack) >= 3
    /\ lastReturn.value # Nil
    /\ AtStatementEnd

\* The program is one expression statement, an if-expression.
OneIfProgram ==
    /\ Len(program.Statements) = 1
    /\ program.Statements[1].kind = "ExpressionStatement"
    /\ program.Statements[1].Expression.kind = "IfExpression"

\* The block of the if-expression that its condition selects, NoNode when
\* that is the alternative and there is none.
TakenBlock ==
    LET x == program.Statements[1].Expression
    IN IF x.Condition.BoolValue THEN x.Consequence ELSE x.Alternative

\* C7: when the main frame has executed an if-expression that is the whole
\* of a statement and stands at the OpPop that ends the statement, the if
\* has left exactly one value on the stack: Null when no block is taken, and
\* the value of the last statement of the block taken when that statement is
\* an integer literal.
C7_OneValue ==
    (OneIfProgram /\ Running /\ frameIndex = 1
     /\ Frame.instructionPointer + 1 = Len(Instructions(Frame)) - 1) =>
        /\ stackPointer = 1
        /\ TakenBlock = NoNode => stack[1] = Null
        /\ (/\ TakenBlock # NoNode
            /\ TakenBlock.Statements # <<>>
            /\ TakenBlock.Statements[Len(TakenBlock.Statements)]
                   = Expr(Num(1))) => stack[1] = Integer(1)

RECURSIVE LastOpcode(_, _, _)
\* The opcode of the last instruction of ins, decoded from position at on.
LastOpcode(ins, at, last) ==
    IF at >= Len(ins) THEN last
    ELSE LastOpcode(ins, at + 1 + SumSeq(OperandWidths(ins[at + 1])), ins[at + 1])

\* C8: every compiled function ends with OpReturnValue or OpReturn; no frame
\* of a function runs past the end of its instructions; and the value an
\* OpReturnValue returns is one the body has pushed, above the locals of
\* its frame.
C8_Terminator ==
    /\ \A i \in DOMAIN constants :
          constants[i].type = "COMPILED_FUNCTION_OBJ" =>
              LastOpcode(constants[i].Instructions, 0, -1) \in Returns
    /\ (Running /\ frameIndex > 1) => LoopGuard
    /\ status = "done" => frameIndex = 1
    /\ (Returned /\ lastOp = OpReturnValue) => lastReturn.stackPointer > lastReturn.floor

\* C9: while Run goes on and when it has returned, with an error or without,
\* the stack pointer is between 0 and StackSize; and no slot at StackSize or
\* above is ever written.
C9_StackBounds ==
    /\ status \in {"running", "done", "error"} =>
          stackPointer >= 0 /\ stackPointer <= StackSize
    /\ Len(stack) <= StackSize

LastStatementIsExpression ==
    /\ program.Statements # <<>>
    /\ program.Statements[Len(program.Statements)].kind = "ExpressionStatement"

\* C10: when Run has returned without error and the last statement of the
\* program is an expression statement, the instruction executed last is the
\* OpPop of that statement and LastPoppedStackElem is the value it popped.
C10_LastPopped ==
    (status = "done" /\ LastStatementIsExpression) =>
        /\ lastOp = OpPop
        /\ stackPointer = lastPopped.stackPointer
        /\ LastPoppedStackElem = lastPopped.value

\* (5 + 10 * 2 + 15 / 3) * 2 + -10 has run and the answer is 50.
C10_Witness ==
    /\ status = "done"
    /\ LastStatementIsExpression
    /\ lastOp = OpPop
    /\ LastPoppedStackElem = Integer(50)
    /\ Len(program.Statements) = 1

\* The same AST has been compiled a second time and the second run is
\* under way or over.
SecondRun == runs.first # NoRun

Ended == status \in {"done", "error", "panic"}

\* C11: compilation and execution are deterministic.  When the same AST is
\* compiled and run a second time, whatever order the Pairs of its hash
\* literals are ranged over in, the second bytecode (instructions and
\* constants) is the first, the stack pointer after every instruction of
\* the second run is what it was in the first run, and the second run ends
\* as the first did, with the same final value.
C11_Deterministic ==
    SecondRun =>
       /\ compiled.bytecode = runs.first.bytecode
       /\ Len(runs.pointers) <= Len(runs.first.pointers)
       /\ runs.pointers = SubSeq(runs.first.pointers, 1, Len(runs.pointers))
       /\ Ended =>
             /\ status = runs.first.status
             /\ error = runs.first.error
             /\ runs.pointers = runs.first.pointers
             /\ status = "done" => SlotGet(stack, stackPointer) = runs.first.value

\* C12: for every opcode and every list of operands in range, one per
\* operand of the opcode, Make yields 1 + the sum of the operand widths
\* bytes, the first of them the opcode, and ReadOperands on the bytes after
\* the opcode yields the operands and the sum of the widths.
C12_RoundTrip ==
    /\ encoding.op >= 0 /\ encoding.made =>
          /\ Len(encoding.instruction) = 1 + SumSeq(OperandWidths(encoding.op))
          /\ encoding.instruction[1] = encoding.op
    /\ encoding.op >= 0 /\ encoding.read =>
          /\ encoding.operandsRead = encoding.operands
          /\ encoding.offset = SumSeq(OperandWidths(encoding.op))

\* OpClosure with a two-byte operand whose bytes differ and the greatest
\* one-byte operand has been made and read back.
C12_Witness ==
    /\ encoding.op = OpClosure
    /\ encoding.read
    /\ encoding.operands = <<256, 255>>
    /\ encoding.instruction = <<OpClosure, 1, 0, 255>>
    /\ encoding.operandsRead = <<256, 255>>

\* The last operation on the chain of tables was op.
Did(op) == tables.chain # <<>> /\ tables.last.op = op

\* C13: the n-th Define on a table (from 0, redefinitions included) returns
\* index n, with scope Global on a table without an outer table and Local
\* otherwise, and binds the name to what it returns; DefineBuiltin,
\* DefineFunctionName and Resolve leave the definition counter of every
\* table as it was; Define on an enclosed table leaves every table outside
\* it as it was.
C13_DefineIndex ==
    LET last == tables.last
    IN /\ Did("Define") =>
             /\ last.symbol = Symbol(last.name,
                                     IF last.table = 1 THEN GlobalScope ELSE LocalScope,
                                     tables.calls[last.table] - 1)
             /\ tables.chain[last.table].store[last.name] = last.symbol
             /\ \A i \in 1 .. last.table - 1 : tables.chain[i] = last.before[i]
       /\ Did("DefineBuiltin") \/ Did("DefineFunctionName") \/ Did("Resolve") =>
             \A i \in DOMAIN tables.chain :
                tables.chain[i].numberOfDefinitions = last.before[i].numberOfDefinitions

\* A name has been defined a second time in an enclosed table that also
\* holds a captured name: the second Define returned index 1.
C13_Witness ==
    /\ Did("Define")
    /\ tables.last.table = 2
    /\ tables.last.name \in DOMAIN tables.last.before[2].store
    /\ tables.last.before[2].store[tables.last.name].Scope = LocalScope
    /\ tables.last.symbol.Index = 1
    /\ tables.last.before[1].store # <<>>

\* The table at or outside table k of the chain whose definition a
\* reference to name in table k stands for: captures are followed outwards.
\* 0 when no table has the name.
RECURSIVE Origin(_, _, _)
Origin(chain, k, name) ==
    IF k = 0 THEN 0
    ELSE IF name \in DOMAIN chain[k].store /\ chain[k].store[name].Scope # FreeScope
    THEN k
    ELSE Origin(chain, k - 1, name)

\* The last operation resolved, from a table nested below it, a name that
\* Define has defined in a function's table.
ResolvedFromBelow ==
    /\ Did("Resolve")
    /\ LET origin == Origin(tables.last.before, tables.last.table, tables.last.name)
       IN /\ origin > 1
          /\ origin < tables.last.table
          /\ tables.last.before[origin].store[tables.last.name].Scope = LocalScope

IsPrefix(s, u) == Len(s) <= Len(u) /\ s = SubSeq(u, 1, Len(s))

\* C14: when a name that Define has defined in a function's table F is
\* resolved from a table nested below F, the result is a Free symbol; its
\* index is the number of names the resolving table had captured before
\* this name (the length of FreeSymbols at the first resolution); every
\* table between F and the resolving table, and the resolving table, has in
\* its FreeSymbols the symbol its directly enclosing table binds the name
\* to; and every FreeSymbols list only grows at its end, one entry per name.
C14_FreeChain ==
    ResolvedFromBelow =>
       LET last == tables.last
           k == last.table
           origin == Origin(last.before, k, last.name)
           free == tables.chain[k].FreeSymbols
       IN /\ last.ok
          /\ last.symbol.Scope = FreeScope
          /\ last.symbol.Name = last.name
          /\ last.name \notin DOMAIN last.before[k].store =>
                last.symbol.Index = Len(last.before[k].FreeSymbols)
          /\ last.symbol.Index < Len(free)
          /\ free[last.symbol.Index + 1].Name = last.name
          /\ \A i \in origin + 1 .. k :
                /\ tables.chain[i].store[last.name].Scope = FreeScope
                /\ tables.chain[i].FreeSymbols[tables.chain[i].store[last.name].Index + 1]
                      = tables.chain[i - 1].store[last.name]
          /\ \A i \in DOMAIN tables.chain :
                /\ IsPrefix(last.before[i].FreeSymbols, tables.chain[i].FreeSymbols)
                /\ \A m, n \in DOMAIN tables.chain[i].FreeSymbols :
                      tables.chain[i].FreeSymbols[m].Name
                         = tables.chain[i].FreeSymbols[n].Name => m = n

\* A second name of a function's table has just been captured two levels
\* below it: index 1 in the resolving table, and the table in between has
\* captured it too.
C14_Witness ==
    /\ ResolvedFromBelow
    /\ tables.last.table = 4
    /\ Origin(tables.last.before, 4, tables.last.name) = 2
    /\ tables.last.symbol = Symbol(tables.last.name, FreeScope, 1)
    /\ Len(tables.chain[4].FreeSymbols) = 2
    /\ tables.last.before[3].FreeSymbols # tables.chain[3].FreeSymbols

\* The innermost table at or outside table k that binds name; 0 if none.
RECURSIVE Binder(_, _, _)
Binder(chain, k, name) ==
    IF k = 0 THEN 0
    ELSE IF name \in DOMAIN chain[k].store THEN k
    ELSE Binder(chain, k - 1, name)

\* C15: Resolve changes the chain only when the name is bound in no table
\* up to an enclosing one that binds it with scope Local, Free or Function;
\* a name an enclosing table binds with scope Global or Builtin comes back
\* as that table binds it, and a name no table binds comes back not found,
\* both with every table as it was.
C15_ResolveFrame ==
    Did("Resolve") =>
       LET last == tables.last
           binder == Binder(last.before, last.table, last.name)
       IN /\ tables.chain # last.before =>
                /\ binder > 0
                /\ binder < last.table
                /\ last.before[binder].store[last.name].Scope
                      \in {LocalScope, FreeScope, FunctionScope}
          /\ (/\ binder > 0
              /\ last.before[binder].store[last.name].Scope
                    \in {GlobalScope, BuiltinScope}) =>
                /\ last.ok
                /\ last.symbol = last.before[binder].store[last.name]
                /\ tables.chain = last.before
          /\ binder = 0 => ~last.ok /\ tables.chain = last.before

\* A builtin registered in the outermost table has been resolved from
\* three levels down, past a table that has captured a local name.
C15_Witness ==
    /\ Did("Resolve")
    /\ tables.last.table = 4
    /\ tables.last.symbol.Scope = BuiltinScope
    /\ tables.last.ok
    /\ tables.chain = tables.last.before
    /\ tables.chain[3].FreeSymbols # <<>>

\* The value OpCall takes for the callee: stack[stackPointer - 1 - numArgs].
Callee == SlotGet(stack, stackPointer - 1 - Operand8)

\* The next instruction is an OpCall that finds a closure whose
\* NumParameters is not the operand of the OpCall.
CallsWithWrongArguments ==
    /\ Decode(OpCall)
    /\ ~Truncated(OpCall)
    /\ stackPointer - 1 - Operand8 >= 0
    /\ stackPointer <= StackSize
    /\ Callee.type = "CLOSURE"
    /\ Callee.Fn.NumParameters # Operand8

\* C16: an OpCall that finds a closure whose NumParameters differs from its
\* operand makes Run return "wrong number of arguments: want=<NumParameters>,
\* got=<operand>"; no frame is pushed, the stack pointer stays where it
\* was, and the frames are as they were but for the instruction pointer of
\* the caller, so that no instruction of the callee is executed.
C16_WrongArguments ==
    [][CallsWithWrongArguments =>
          /\ status' = "error"
          /\ error' = <<"wrong number of arguments: want=%d, got=%d",
                        Callee.Fn.NumParameters, Operand8>>
          /\ frameIndex' = frameIndex
          /\ Len(frames') = Len(frames)
          /\ \A i \in DOMAIN frames :
                /\ frames'[i].cl = frames[i].cl
                /\ frames'[i].basePointer = frames[i].basePointer
          /\ stackPointer' = stackPointer
          /\ stack' = stack]_vars

\* Run has returned the error for a closure of two parameters called with
\* one argument from inside another function.
C16_Witness ==
    /\ status = "error"
    /\ lastOp = OpCall
    /\ error = <<"wrong number of arguments: want=%d, got=%d", 2, 1>>
    /\ frameIndex = 2

(* C17: OpIndex never fails for an array with an integer index or a hash
   with a hashable key.  For an array a and an integer i it pushes a[i]
   when 0 <= i < len(a) and Null otherwise; for a hash it pushes the value
   stored under the key's hash key, or Null when the key is absent.  The
   two operands are replaced by exactly one value: the stack pointer goes
   down by one, the value is in the slot the indexed operand was in, and
   the slots below are unchanged. *)
IndexOperand == SlotGet(stack, stackPointer - 1)

Indexed == SlotGet(stack, stackPointer - 2)

IndexesCollection ==
    /\ Decode(OpIndex)
    /\ ~Truncated(OpIndex)
    /\ stackPointer >= 2
    /\ stackPointer <= StackSize
    /\ \/ Indexed.type = "ARRAY" /\ IndexOperand.type = "INTEGER"
       \/ Indexed.type = "HASH" /\ IndexOperand.type \in {"INTEGER", "BOOLEAN", "STRING"}

StoredUnder == {i \in DOMAIN Indexed.pairs : Indexed.pairs[i].hashKey = HashKey(IndexOperand)}

IndexedValue ==
    IF Indexed.type = "ARRAY"
    THEN IF 0 <= IndexOperand.int /\ IndexOperand.int < Len(Indexed.elements)
         THEN Indexed.elements[IndexOperand.int + 1]
         ELSE Null
    ELSE IF StoredUnder = {} THEN Null
         ELSE Indexed.pairs[CHOOSE i \in StoredUnder : TRUE].pair.Value

C17_IndexNeverFails ==
    [][IndexesCollection =>
          /\ status' = "running"
          /\ stackPointer' = stackPointer - 1
          /\ SlotGet(stack', stackPointer - 2) = IndexedValue
          /\ \A i \in 0 .. stackPointer - 3 : SlotGet(stack', i) = SlotGet(stack, i)
          /\ Indexed.type = "HASH" => Cardinality(StoredUnder) <= 1]_vars

\* an integer index below zero gave Null: the index is still in the slot
\* above the stack pointer, Null is in the slot below it
C17_Witness ==
    /\ lastOp = OpIndex
    /\ status = "running"
    /\ SlotGet(stack, stackPointer).type = "INTEGER"
    /\ SlotGet(stack, stackPointer).int < 0
    /\ SlotGet(stack, stackPointer - 1) = Null

(* C18: every compiler instance, made by New or by NewWithState with the
   symbol table the caller supplies (as the REPL does on every line),
   resolves each builtin name the program has not shadowed to Builtin
   scope with its canonical index and compiles a reference to it as
   OpGetBuiltin with that index. *)
RECURSIVE BoundIn(_)

BoundInAll(nodes) == UNION {BoundIn(nodes[i]) : i \in DOMAIN nodes}

\* the names a let statement, a parameter or a function's own name binds
\* anywhere in the node
BoundIn(node) ==
    CASE node.kind \in {"Program", "BlockStatement"} -> BoundInAll(node.Statements)
      [] node.kind = "ExpressionStatement" -> BoundIn(node.Expression)
      [] node.kind = "LetStatement" -> {node.Name} \cup BoundIn(node.Value)
      [] node.kind = "ReturnStatement" -> BoundIn(node.ReturnValue)
      [] node.kind = "InfixExpression" -> BoundIn(node.Left) \cup BoundIn(node.Right)
      [] node.kind = "PrefixExpression" -> BoundIn(node.Right)
      [] node.kind = "IfExpression" ->
            BoundIn(node.Condition) \cup BoundIn(node.Consequence)
                \cup BoundIn(node.Alternative)
      [] node.kind = "IndexExpression" -> BoundIn(node.Left) \cup BoundIn(node.Index)
      [] node.kind = "CallExpression" ->
            BoundIn(node.Function) \cup BoundInAll(node.Arguments)
      [] node.kind = "ArrayLiteral" -> BoundInAll(node.Elements)
      [] node.kind = "HashLiteral" ->
            UNION {BoundIn(node.Pairs[i][1]) \cup BoundIn(node.Pairs[i][2]) :
                      i \in DOMAIN node.Pairs}
      [] node.kind = "FunctionLiteral" ->
            {node.Parameters[i] : i \in DOMAIN node.Parameters}
                \cup (IF node.FnName = "" THEN {} ELSE {node.FnName})
                \cup BoundIn(node.Body)
      [] OTHER -> {}

Unshadowed == {i \in DOMAIN Builtins : Builtins[i] \notin BoundIn(program)}

C18_BuiltinsResolve ==
    \A b \in Unshadowed :
        /\ compiled.error # <<"undefined variable %s", Builtins[b]>>
        /\ \A i \in DOMAIN compiled.identLog :
              compiled.identLog[i].name = Builtins[b] =>
                  /\ compiled.identLog[i].symbol = Symbol(Builtins[b], BuiltinScope, b - 1)
                  /\ compiled.identLog[i].op = OpGetBuiltin
        /\ program = Program(<<Expr(Id(Builtins[b]))>>) =>
              compiled.bytecode.Instructions
                  = Make(OpGetBuiltin, <<b - 1>>) \o Make(OpPop, <<>>)

(* C19: OpIndex applied to any operand pair other than (Array, Integer) or
   (Hash, hashable key) makes Run return the error "index operator not
   supported: <T>", where T is the type of the indexed (left) operand; a
   Hash indexed with a key that is not hashable included. *)
IndexesOther ==
    /\ Decode(OpIndex)
    /\ ~Truncated(OpIndex)
    /\ stackPointer >= 2
    /\ stackPointer <= StackSize
    /\ Indexed.type # "nil"
    /\ IndexOperand.type # "nil"
    /\ ~(Indexed.type = "ARRAY" /\ IndexOperand.type = "INTEGER")
    /\ ~(Indexed.type = "HASH" /\ IndexOperand.type \in {"INTEGER", "BOOLEAN", "STRING"})

C19_IndexNotSupported ==
    [][IndexesOther =>
          /\ status' = "error"
          /\ error' = <<"index operator not supported: %s", Indexed.type>>]_vars

\* C19 as the code has it: a Hash indexed with a key that is not hashable
\* makes Run return "unusable as hash key: <K>", K the type of the index;
\* every other pair that is not (Array, Integer) or (Hash, hashable key)
\* makes it return "index operator not supported: <T>", T the type of the
\* indexed operand.
C19_IndexErrors ==
    [][IndexesOther =>
          /\ status' = "error"
          /\ error' = IF Indexed.type = "HASH"
                      THEN <<"unusable as hash key: %s", IndexOperand.type>>
                      ELSE <<"index operator not supported: %s", Indexed.type>>
          /\ stackPointer' = stackPointer - 2]_vars

\* [1][true] has ended the run
C19_Witness ==
    /\ lastOp = OpIndex
    /\ status = "error"
    /\ error = <<"index operator not supported: %s", "ARRAY">>
    /\ SlotGet(stack, stackPointer + 1).type = "BOOLEAN"

(* C20: String values are equal by contents.  For any two String values
   with the same bytes, from two separate literals, from concatenation or
   from the same constant, OpEqual yields true and OpNotEqual yields
   false. *)
RightOperand == SlotGet(stack, stackPointer - 1)

LeftOperand == SlotGet(stack, stackPointer - 2)

ComparesEqualStrings ==
    /\ LoopGuard
    /\ Op \in {OpEqual, OpNotEqual}
    /\ ~Truncated(Op)
    /\ stackPointer >= 2
    /\ stackPointer <= StackSize
    /\ LeftOperand.type = "STRING"
    /\ RightOperand.type = "STRING"
    /\ LeftOperand.str = RightOperand.str

C20_StringEquality ==
    [][ComparesEqualStrings =>
          /\ status' = "running"
          /\ stackPointer' = stackPointer - 1
          /\ SlotGet(stack', stackPointer - 2) = IF Op = OpEqual THEN True ELSE False]_vars

(* C21: after an if-expression has been compiled, the operand of its
   OpJumpNotTrue is the offset of the first instruction after the OpJump
   that ends the consequence, the operand of that OpJump is the offset of
   the first instruction after the alternative (or after the OpNull emitted
   when there is none), no placeholder 9999 is left, and both targets are
   starts of instructions inside the same function's buffer, however the
   if-expressions are nested. *)
RECURSIVE StartsFrom(_, _, _)
StartsFrom(ins, at, found) ==
    IF Len(found) > Len(ins) \/ at >= Len(ins) THEN found
    ELSE StartsFrom(ins, at + 1 + SumSeq(OperandWidths(ins[at + 1])), Append(found, at))

\* the offsets at which the instructions of a buffer start
InstructionStarts(ins) ==
    LET found == StartsFrom(ins, 0, <<>>)
    IN {found[i] : i \in DOMAIN found}

\* the main instructions and the instructions of every compiled function
Buffers ==
    {compiled.bytecode.Instructions}
    \cup {compiled.bytecode.Constants[i].Instructions :
              i \in {k \in DOMAIN compiled.bytecode.Constants :
                        compiled.bytecode.Constants[k].type = "COMPILED_FUNCTION_OBJ"}}

Target(ins, p) == ReadUint16(ins, p + 1)

Backpatched(ins) ==
    \A starts \in {InstructionStarts(ins)} :
    LET jumps == {p \in starts : ins[p + 1] = OpJump}
        jumpsNotTrue == {p \in starts : ins[p + 1] = OpJumpNotTrue}
    IN /\ \A p \in jumpsNotTrue :
             /\ Target(ins, p) # 9999
             /\ Target(ins, p) \in starts
             /\ Target(ins, p) - 3 \in jumps
             /\ Target(ins, p) - 3 > p
       /\ \A q \in jumps :
             /\ Target(ins, q) # 9999
             /\ Target(ins, q) \in starts
             /\ Target(ins, q) >= q + 3
             /\ \E p \in jumpsNotTrue : Target(ins, p) = q + 3
             \* if-expressions nest: a jump inside q's alternative stays in it
             /\ \A r \in jumps \cup jumpsNotTrue :
                   (r > q /\ r < Target(ins, q)) => Target(ins, r) <= Target(ins, q)

\* two OpJump of one buffer, the second inside the alternative of the first
NestedJumps(ins) ==
    \E starts \in {InstructionStarts(ins)} :
    LET jumps == {p \in starts : ins[p + 1] = OpJump}
    IN \E q \in jumps, r \in jumps :
          q < r /\ Target(ins, r) <= Target(ins, q) /\ Target(ins, q) < Len(ins)

Emitted == currentInstructions(buffer.c)

InScope == buffer.calls # <<>> /\ buffer'.c.scopeIndex = buffer.c.scopeIndex

\* the scopes other than the current one are as they were
OtherScopesKept ==
    \A k \in DOMAIN buffer.c.scopes :
        k # buffer.c.scopeIndex + 1 =>
            buffer'.c.scopes[k].instructions = buffer.c.scopes[k].instructions

Appends(before, after) ==
    Len(after) > Len(before) /\ SubSeq(after, 1, Len(before)) = before

RewritesOperand(before, after, position) ==
    /\ position \in InstructionStarts(before)
    /\ Len(after) = Len(before)
    /\ \A i \in DOMAIN before :
          after[i] # before[i] =>
              /\ i - 1 > position
              /\ i - 1 <= position + SumSeq(OperandWidths(before[position + 1]))

RewritesLastPop(before, after) ==
    /\ before # <<>>
    /\ Len(before) - 1 \in InstructionStarts(before)
    /\ before[Len(before)] = OpPop
    /\ after = [before EXCEPT ![Len(before)] = OpReturnValue]

CutsLastPop(before, after) ==
    /\ before # <<>>
    /\ Len(before) - 1 \in InstructionStarts(before)
    /\ before[Len(before)] = OpPop
    /\ after = SubSeq(before, 1, Len(before) - 1)

C22_AppendOnly ==
    [][InScope =>
          /\ OtherScopesKept
          /\ \/ Appends(Emitted, Emitted')
             \/ /\ buffer'.last.op = "changeOperand"
                /\ RewritesOperand(Emitted, Emitted', buffer'.last.opPosition)
             \/ /\ buffer'.last.op = "replaceLastPopWithReturn"
                /\ RewritesLastPop(Emitted, Emitted')]_vars

\* C22 with the removal the code has: removeLastPop cuts the last
\* instruction, an OpPop, off the buffer and changes no byte before it;
\* every other operation is as the claim has it, and entering and leaving
\* a scope change no scope's buffer.
C22_BufferChanges ==
    [][buffer.calls # <<>> =>
          IF InScope
          THEN /\ OtherScopesKept
               /\ \/ buffer'.last.op = "emit" /\ Appends(Emitted, Emitted')
                  \/ /\ buffer'.last.op = "changeOperand"
                     /\ RewritesOperand(Emitted, Emitted', buffer'.last.opPosition)
                  \/ /\ buffer'.last.op = "replaceLastPopWithReturn"
                     /\ RewritesLastPop(Emitted, Emitted')
                  \/ /\ buffer'.last.op = "removeLastPop"
                     /\ CutsLastPop(Emitted, Emitted')
          ELSE \A k \in DOMAIN buffer.c.scopes \cap DOMAIN buffer'.c.scopes :
                  buffer'.c.scopes[k].instructions = buffer.c.scopes[k].instructions]_vars

\* an operand has been rewritten to another value in a function's scope
\* after a pop was cut off there
C22_Witness ==
    /\ buffer.calls # <<>>
    /\ buffer.last.op = "changeOperand"
    /\ buffer.c.scopeIndex = 1
    /\ ReadUint16(Emitted, buffer.last.opPosition + 1) = buffer.last.operand
    /\ buffer.last.operand # 9999
    /\ \E i \in 1 .. buffer.at : buffer.calls[i].op = "removeLastPop"

(* C23: the frame index never exceeds 1024, the capacity of the frames
   array.  A chain of nested calls deeper than the capacity makes Run
   return an error to the caller and halt, and no frame is ever stored at
   an index outside the frames array. *)
C23_FrameCapacity ==
    /\ frameIndex <= MaxFrames
    /\ Len(frames) <= MaxFrames
    /\ (lastOp = OpCall /\ frameIndex = MaxFrames /\ status # "running") =>
           status = "error"

(* C24: the frame index is at least 1 in every reachable state of Run: the
   main frame installed by New is never popped.  For every program the
   compiler accepts, one with a return statement at the top level
   included, OpReturnValue and OpReturn are executed only in a frame
   created by OpCall, and the stack pointer is never set to a negative
   value by a return. *)
C24_MainFrameKept ==
    compiled.error = <<>> =>
        /\ frameIndex >= 1
        /\ lastOp \in Returns => lastWrite.frameIndex >= 2
        /\ lastOp \in Returns => stackPointer >= 0

(* C25: in the REPL, after any sequence of input lines, lines that fail to
   compile and lines that fail at run time included, every name that the
   shared symbol table resolves to a Global index i has a value stored in
   globals[i]; so evaluating a name on a later line never pushes an unset
   slot and the line's result passed to Inspect is always a value. *)
GlobalNames ==
    {name \in DOMAIN repl.symbolTable.store :
        repl.symbolTable.store[name].Scope = GlobalScope}

C25_GlobalsSet ==
    repl.phase \in {"prompt", "running", "panic"} =>
        /\ repl.phase = "prompt" =>
              \A name \in GlobalNames :
                  SlotGet(globals, repl.symbolTable.store[name].Index) # Nil
        /\ (lastOp = OpGetGlobal /\ status = "running") =>
              SlotGet(stack, stackPointer - 1) # Nil
        /\ repl.phase # "panic"

(* C26: whenever Compile returns for a Program, with an error or without
   one, the scopes and the symbol tables are balanced: scopeIndex is 0, the
   current symbol table is the outermost one and Bytecode() returns the
   instructions of the main scope. *)
C26_ScopesBalanced ==
    status # "idle" =>
        /\ compiled.scopeIndex = 0
        /\ compiled.symbolTables = 1
        /\ compiled.bytecode.Instructions = compiled.mainInstructions

(* C27: every operand the compiler emits fits the operand width of its
   opcode: the index of a local binding is at most 255 and the OpSetLocal
   emitted for the binding carries that index, so two distinct bindings of
   a scope are never encoded with the same operand. *)
C27_OperandsFit ==
    buffer.last.op = "LetStatement" =>
        LET ins == currentInstructions(buffer.c)
            position == buffer.last.position
        IN /\ ins[position + 1] = OpSetLocal
           /\ buffer.last.symbol.Index <= 255
           /\ ReadUint8(ins, position + 1) = buffer.last.symbol.Index

(* C28: every OpJump and OpJumpNotTrue the compiler emits targets an offset
   strictly greater than the position of the jump itself; within a frame
   the instruction pointer only moves forward (a step of Run that stays in
   the frame raises it, and the pointer of a frame below the current one is
   never lowered); and Run terminates for every compiled program that
   performs no closure call. *)
JumpsForward(ins) ==
    \A starts \in {InstructionStarts(ins)} :
        \A p \in starts :
            ins[p + 1] \in {OpJump, OpJumpNotTrue} => Target(ins, p) > p

Lower(a, b) == IF a < b THEN a ELSE b

ForwardInFrame ==
    status = "running" =>
        \A k \in 1 .. Lower(frameIndex, frameIndex') :
            /\ frames'[k].instructionPointer >= frames[k].instructionPointer
            /\ (k = frameIndex /\ frameIndex' = frameIndex /\ status' = "running")
                  => frames'[k].instructionPointer > frames[k].instructionPointer

C28_ForwardJumps ==
    /\ [](compiled.error = <<>> => \A ins \in Buffers : JumpsForward(ins))
    /\ [][ForwardInFrame]_vars
    /\ (status = "running") ~> (status # "running" \/ callLog # <<>>)

\* Run has returned for a program whose main instructions hold a jump and
\* no call, and the last jump executed was taken
C28_Witness ==
    /\ status = "done"
    /\ callLog = <<>>
    /\ \E starts \in {InstructionStarts(compiled.bytecode.Instructions)} :
          /\ \E p \in starts : compiled.bytecode.Instructions[p + 1] = OpJump
          /\ \A p \in starts : compiled.bytecode.Instructions[p + 1] # OpCall

(* C29: Instructions.String() terminates for every byte sequence, a
   sequence with a byte that is no defined opcode and a sequence whose last
   instruction has its operand bytes cut off included: no iteration of its
   loop panics and each iteration advances the read index by at least one
   byte. *)
StringAdvances ==
    (listing.status = "running" /\ listing' # listing) =>
        /\ listing'.status # "panic"
        /\ listing'.status = "running" => listing'.index > listing.index

C29_StringTerminates == [][StringAdvances]_vars

(* C30: Resolve is idempotent on a table: with no Define of the name in
   between, resolving the same name again returns the same symbol as the
   first resolution and lengthens no FreeSymbols list; so no name appears
   twice in a FreeSymbols list, and the length of the list, which is the
   free count of the function's OpClosure, is the number of distinct names
   the function captures. *)
FreeNames(st) == {st.FreeSymbols[i].Name : i \in DOMAIN st.FreeSymbols}

NoNameTwice ==
    \A k \in DOMAIN tables.chain :
        LET st == tables.chain[k]
        IN /\ \A i, j \in DOMAIN st.FreeSymbols :
                 st.FreeSymbols[i].Name = st.FreeSymbols[j].Name => i = j
           /\ Len(st.FreeSymbols) = Cardinality(FreeNames(st))

ResolvedAgain ==
    (/\ tables.last.op = "Resolve"
     /\ tables'.last.op = "Resolve"
     /\ tables'.last.name = tables.last.name)
    => /\ tables'.last.symbol = tables.last.symbol
       /\ tables'.last.ok = tables.last.ok
       /\ \A k \in DOMAIN tables.chain :
             tables'.chain[k].FreeSymbols = tables.chain[k].FreeSymbols

C30_ResolveIdempotent == []NoNameTwice /\ [][ResolvedAgain]_vars

\* a name has been resolved to a free symbol of the innermost table for the
\* second time: the table already bound it, and holds two free symbols
C30_Witness ==
    /\ tables.last.op = "Resolve"
    /\ tables.last.ok
    /\ tables.last.symbol.Scope = FreeScope
    /\ tables.last.before = tables.chain
    /\ Len(tables.chain[Len(tables.chain)].FreeSymbols) = 2

====
